---- MODULE Spec2Model ----
(***************************************************************************)
(* SQInput: the input mapping and polling engine of the SQInput plugin     *)
(* (src/SQInput.js).  The binding table SQInput.inputs, the lookup maps    *)
(* Input.keyMapper / Input.gamepadMapper rebuilt from it, the logical      *)
(* state kept by Input (_currentState, _previousState, _latestButton,      *)
(* _pressedTime), the gamepad poll and the Escape+Tab failsafe.            *)
(*                                                                         *)
(* JavaScript values: a key code is a string, a gamepad button an integer. *)
(* The value undefined of a keyboard slot is UndefinedKey, of a gamepad    *)
(* slot UndefinedButton; null of activeGamepadIndex is NullIndex, null of  *)
(* targetGamepadName is NullName.                                          *)
(***************************************************************************)
EXTENDS Integers, Sequences, FiniteSets, TLC

VARIABLES
    customControls,     \* SQInput.customControls: the Controls plugin parameter
    inputKeys,          \* Object.keys(SQInput.inputs): the ids in insertion order
    inputs,             \* SQInput.inputs: id -> the function's record
    keyMapper,          \* Input.keyMapper: key code -> names
    gamepadMapper,      \* Input.gamepadMapper: button index -> names
    activeButtonSet,    \* SQInput.activeButtonSet
    targetGamepadName,  \* SQInput.targetGamepadName
    activeGamepadIndex, \* SQInput.activeGamepadIndex
    lastInputDevice,    \* SQInput.lastInputDevice
    resetMapFlag,       \* SQInput._resetMap
    currentState,       \* Input._currentState: [keys: insertion order, val: name -> BOOLEAN]
    previousState,      \* Input._previousState: name -> BOOLEAN
    latestButton,       \* Input._latestButton: [isNull, names]
    pressedTime,        \* Input._pressedTime
    gamepadStates,      \* Input._gamepadStates: gamepad index -> set of pressed button indices
    keysDown,           \* hardware: the key codes physically held
    gamepads,           \* hardware: navigator.getGamepads()
    savedConfig,        \* the config.SQConfig record last written by ConfigManager.save
    lastOp,             \* history: the operation that produced this state
    holdFrames,         \* history: consecutive updates with Escape and Tab physically held
    resetsInHold,       \* history: resetMap calls made by the failsafe during that hold
    frameLog,           \* history: what the last Input.update saw
    freshKeys,          \* history: the keys pressed since the last update and still held
    lastPolled,         \* history: the button states each gamepad showed at the last poll
    quiet,              \* history: the input pressed last and the updates since, nothing else having happened
    keyEvents,          \* history: the key events counted by the failsafe specification
    keyboardInputCallback,      \* SQInput._keyboardInputCallback
    gamepadInputCallback,       \* SQInput._gamepadInputCallback with _gamepadInputCallbackType
    documentActiveGamepadIndex, \* document.activeGamepadIndex, written by the gamepad listeners
    captureLog,         \* history: the captures armed, the handlers invoked, the captures cancelled
    inflight,           \* history: the functions held and pressed when another function was rebound
    returned            \* what the last call made by the application returned to it

vars == <<customControls, inputKeys, inputs, keyMapper, gamepadMapper, activeButtonSet,
          targetGamepadName, activeGamepadIndex, lastInputDevice, resetMapFlag,
          currentState, previousState, latestButton, pressedTime, gamepadStates,
          keysDown, gamepads, savedConfig, lastOp, holdFrames, resetsInHold, frameLog,
          freshKeys, lastPolled, quiet, keyEvents, keyboardInputCallback,
          gamepadInputCallback, documentActiveGamepadIndex, captureLog, inflight,
          returned>>

tableVars == <<customControls, inputKeys, inputs, keyMapper, gamepadMapper>>
deviceVars == <<activeButtonSet, targetGamepadName, activeGamepadIndex, lastInputDevice>>
logicalVars == <<currentState, previousState, latestButton, pressedTime, gamepadStates>>
hardwareVars == <<keysDown, gamepads>>
historyVars == <<holdFrames, resetsInHold, frameLog, freshKeys, lastPolled, keyEvents>>
frameHistory == <<lastOp, frameLog, freshKeys, lastPolled, quiet>>
captureVars == <<keyboardInputCallback, gamepadInputCallback, documentActiveGamepadIndex>>

-----------------------------------------------------------------------------
(* JavaScript values *)

UndefinedKey == "undefined"
UndefinedButton == -1
NullIndex == -1
NullName == "null"
NotANumber == -999      \* NaN

(* bounds of the model *)
MaxLatest == 4          \* longest Input._latestButton explored
MaxFrames == 38         \* largest Input._pressedTime explored by the frame specifications
MaxHold == 301          \* largest Input._pressedTime explored by the failsafe specification
MaxPadFrames == 2       \* largest Input._pressedTime explored by the gamepad specification
HoldEvents == 2         \* frames of an Escape+Tab hold during which keys still change
MaxKeyEvents == 4       \* key events explored by the failsafe specification
PreHold == 1            \* largest Input._pressedTime explored before Escape and Tab are both held
MaxArms == 2            \* captures armed in one behaviour
MaxCaptureFrames == 1   \* largest Input._pressedTime explored by the capture specifications
MaxTwoPadEvents == 5    \* hardware events explored by the two-gamepad specification
MaxOrdinal == 12        \* largest index handed to getInputByIndex
MaxCaptureEvents == 3   \* key and button events explored by the capture specifications

(* program constants *)
veryLongPressTime == 300        \* SQInput.isVeryLongPressed
keyRepeatWait == 24             \* Input.keyRepeatWait
keyRepeatInterval == 6          \* Input.keyRepeatInterval
numButtonSets == 4              \* SQInput.numButtonSets
padButtonCount == 16            \* the standard gamepad buttons 0..15
baseControlIconIndex == 0       \* SQInput.baseControlIconIndex (iconOffset not set)
buttonSetSize == 16             \* SQInput.buttonSetSize
maxButtonSets == 4              \* SQInput.maxButtonSets

PadButtons == 0 .. (padButtonCount - 1)

-----------------------------------------------------------------------------
(* sequence helpers *)

Contains(s, x) == \E n \in 1 .. Len(s) : s[n] = x

Range(s) == {s[n] : n \in 1 .. Len(s)}

Put(m, k, v) == [x \in (DOMAIN m) \cup {k} |-> IF x = k THEN v ELSE m[x]]

EmptyMap == [x \in {} |-> <<>>]

-----------------------------------------------------------------------------
(* SQInput.inputs, the default functions *)

BuiltinKeys ==
    <<"up", "down", "left", "right", "cancel", "confirm", "menu", "dash",
      "cycle_right", "cycle_left">>

BuiltinInputs ==
    [i \in Range(BuiltinKeys) |->
        CASE i = "up"          -> [name |-> "up",       keyboardButton |-> "ArrowUp",    gamepadButton |-> 12]
          [] i = "down"        -> [name |-> "down",     keyboardButton |-> "ArrowDown",  gamepadButton |-> 13]
          [] i = "left"        -> [name |-> "left",     keyboardButton |-> "ArrowLeft",  gamepadButton |-> 14]
          [] i = "right"       -> [name |-> "right",    keyboardButton |-> "ArrowRight", gamepadButton |-> 15]
          [] i = "cancel"      -> [name |-> "cancel",   keyboardButton |-> "KeyX",       gamepadButton |-> 1]
          [] i = "confirm"     -> [name |-> "confirm",  keyboardButton |-> "KeyZ",       gamepadButton |-> 0]
          [] i = "menu"        -> [name |-> "menu",     keyboardButton |-> "KeyS",       gamepadButton |-> 3]
          [] i = "dash"        -> [name |-> "dash",     keyboardButton |-> "KeyQ",       gamepadButton |-> 6]
          [] i = "cycle_right" -> [name |-> "pageup",   keyboardButton |-> "PageUp",     gamepadButton |-> 7]
          [] i = "cycle_left"  -> [name |-> "pagedown", keyboardButton |-> "PageDown",   gamepadButton |-> 8]]

(* SQInput.customControls: the values of the Controls plugin parameter explored *)
JumpControl == [name |-> "jump", keyboardInput |-> "Space", controllerInput |-> 2]
ConfirmControl == [name |-> "confirm", keyboardInput |-> "Enter", controllerInput |-> 5]

ControlsParams == {<<>>, <<JumpControl>>, <<ConfirmControl, JumpControl>>}

-----------------------------------------------------------------------------
(* SQInput.initialize, SQInput.initCustomControls *)

(* the loop of SQInput.initialize: the defaults of the functions present when it runs *)
SaveDefaults(tbl) ==
    [i \in DOMAIN tbl |->
        [name |-> tbl[i].name,
         keyboardButton |-> tbl[i].keyboardButton,
         gamepadButton |-> tbl[i].gamepadButton,
         defaultKeyboardButton |-> tbl[i].keyboardButton,
         defaultGamepButton |-> tbl[i].gamepadButton]]

(* SQInput.inputs[control.name] = {} : a function with no field set yet *)
EmptyInput ==
    [name |-> UndefinedKey,
     keyboardButton |-> UndefinedKey,
     gamepadButton |-> UndefinedButton,
     defaultKeyboardButton |-> UndefinedKey,
     defaultGamepButton |-> UndefinedButton]

(* one pass of the loop of SQInput.initCustomControls *)
AddCustomControl(t, control) ==
    LET present == control.name \in DOMAIN t.tbl
        base == IF present THEN t.tbl[control.name] ELSE EmptyInput
        entry == [base EXCEPT !.name = control.name,
                              !.keyboardButton = control.keyboardInput,
                              !.gamepadButton = control.controllerInput]
    IN  [keys |-> IF present THEN t.keys ELSE Append(t.keys, control.name),
         tbl |-> Put(t.tbl, control.name, entry)]

RECURSIVE initCustomControls(_, _)
initCustomControls(t, controls) ==
    IF controls = <<>> THEN t
    ELSE initCustomControls(AddCustomControl(t, Head(controls)), Tail(controls))

(* the binding table after SQInput.initialize with the given Controls parameter *)
initialize(controls) ==
    initCustomControls([keys |-> BuiltinKeys, tbl |-> SaveDefaults(BuiltinInputs)], controls)

-----------------------------------------------------------------------------
(* SQInput.rebuildButtonMapper *)

RECURSIVE KeyboardLoop(_, _, _)
KeyboardLoop(keys, tbl, m) ==
    IF keys = <<>> THEN m
    ELSE KeyboardLoop(Tail(keys), tbl, Put(m, tbl[Head(keys)].keyboardButton, <<Head(keys)>>))

StaticKeys(m) ==
    LET withTab == IF "Tab" \notin DOMAIN m THEN Put(m, "Tab", <<"static_tab">>) ELSE m
    IN  IF "Escape" \notin DOMAIN withTab
        THEN Put(withTab, "Escape", <<"static_escape">>)
        ELSE withTab

KeyboardAliases(tbl, m) ==
    LET m1 == Put(m, tbl["cancel"].keyboardButton, <<"cancel">>)
        m2 == Put(m1, tbl["confirm"].keyboardButton, <<"confirm", "ok">>)
        m3 == Put(m2, tbl["dash"].keyboardButton, <<"shift">>)
        m4 == Put(m3, tbl["cycle_left"].keyboardButton, <<"pageup">>)
    IN  Put(m4, tbl["cycle_right"].keyboardButton, <<"pagedown">>)

newKeyboardMap(keys, tbl) ==
    KeyboardAliases(tbl, StaticKeys(KeyboardLoop(keys, tbl, EmptyMap)))

RECURSIVE GamepadLoop(_, _, _)
GamepadLoop(keys, tbl, m) ==
    IF keys = <<>> THEN m
    ELSE LET b == tbl[Head(keys)].gamepadButton
             old == IF b \in DOMAIN m THEN m[b] ELSE <<>>
         IN  GamepadLoop(Tail(keys), tbl, Put(m, b, Append(old, Head(keys))))

(* the merge of SQInput.gamepadMapper: every standard button has an entry *)
MergeBase(m) ==
    [b \in (DOMAIN m) \cup PadButtons |-> IF b \in DOMAIN m THEN m[b] ELSE <<>>]

GamepadAliases(tbl, m) ==
    LET m1 == Put(m, tbl["cancel"].gamepadButton, <<"cancel">>)
        m2 == Put(m1, tbl["confirm"].gamepadButton, <<"confirm", "ok">>)
    IN  Put(m2, tbl["dash"].gamepadButton, <<"shift">>)

newGamepadMap(keys, tbl) ==
    GamepadAliases(tbl, MergeBase(GamepadLoop(keys, tbl, EmptyMap)))

-----------------------------------------------------------------------------
(* Input.clear, as overridden by SQInput *)

ClearedCurrent(cs) == [keys |-> cs.keys, val |-> [k \in DOMAIN cs.val |-> FALSE]]

NullLatest == [isNull |-> TRUE, names |-> <<>>]

NoGamepadStates == [x \in {} |-> {}]

(* the state left by Input.clear when _currentState is cs and _previousState is ps:
   the second forEach writes _currentState again, so _previousState keeps its values *)
ClearOf(cs, ps) ==
    /\ currentState' = ClearedCurrent(cs)
    /\ previousState' = ps
    /\ gamepadStates' = NoGamepadStates
    /\ latestButton' = NullLatest
    /\ pressedTime' = 0

(* SQInput.rebuildButtonMapper on the table given, Input.clear included *)
rebuildButtonMapper(keys, tbl, cs, ps) ==
    /\ keyMapper' = newKeyboardMap(keys, tbl)
    /\ gamepadMapper' = newGamepadMap(keys, tbl)
    /\ ClearOf(cs, ps)

-----------------------------------------------------------------------------
(* SQInput.setControlButton, SQInput.resetMap *)

(* the first function other than control whose slot holds keyCode; "" when the
   loop leaves duplicateFunction null (null and "" are both falsy) *)
RECURSIVE duplicateFunction(_, _, _, _, _)
duplicateFunction(keys, tbl, control, keyCode, type) ==
    IF keys = <<>> THEN ""
    ELSE IF tbl[Head(keys)][type] = keyCode /\ Head(keys) # control THEN Head(keys)
    ELSE duplicateFunction(Tail(keys), tbl, control, keyCode, type)

(* setControlButton without the swap of the duplicate *)
setControlButtonNoSwap(keys, tbl, control, keyCode, type) ==
    [tbl EXCEPT ![control][type] = keyCode]

(* the table after setControlButton(control, keyCode, type) on a known control *)
setControlButton(keys, tbl, control, keyCode, type) ==
    LET dup == duplicateFunction(keys, tbl, control, keyCode, type)
        swapped == IF dup # ""
                   THEN [tbl EXCEPT ![dup][type] = tbl[control][type]]
                   ELSE tbl
    IN  [swapped EXCEPT ![control][type] = keyCode]

(* the table after resetMap *)
resetMap(tbl) ==
    [i \in DOMAIN tbl |->
        [tbl[i] EXCEPT !.keyboardButton = tbl[i].defaultKeyboardButton,
                       !.gamepadButton = tbl[i].defaultGamepButton]]

-----------------------------------------------------------------------------
(* SQInput.getControlMap / setControlMap, ConfigManager.makeData / applyData *)

(* getControlMap saving the stored default of the gamepad slot *)
getControlMapDefaults(tbl) ==
    [func \in DOMAIN tbl |->
        [keyboardButton |-> tbl[func].keyboardButton,
         gamepadButton |-> tbl[func].defaultGamepButton]]

getControlMap(tbl) ==
    [func \in DOMAIN tbl |->
        [keyboardButton |-> tbl[func].keyboardButton,
         gamepadButton |-> tbl[func].gamepadButton]]

(* buttons.keyboardButton / buttons.gamepadButton of a control map entry: a
   property that is missing reads as undefined *)
KeyboardOf(buttons) ==
    IF "keyboardButton" \in DOMAIN buttons THEN buttons.keyboardButton ELSE UndefinedKey

GamepadOf(buttons) ==
    IF "gamepadButton" \in DOMAIN buttons THEN buttons.gamepadButton ELSE UndefinedButton

(* the table after setControlMap(map) *)
setControlMap(tbl, map) ==
    [key \in DOMAIN tbl |->
        IF key \in DOMAIN map
        THEN [tbl[key] EXCEPT !.gamepadButton = GamepadOf(map[key]),
                              !.keyboardButton = KeyboardOf(map[key])]
        ELSE tbl[key]]

makeData(tbl, buttonSet, gamepadName) ==
    [buttonSet |-> buttonSet, gamepadName |-> gamepadName, controlMap |-> getControlMap(tbl)]

(* JSON.stringify then JSON.parse of a control map entry: a property whose value
   is undefined is not written *)
JsonButtons(buttons) ==
    LET kept == {f \in DOMAIN buttons :
                    \/ f = "keyboardButton" /\ buttons[f] # UndefinedKey
                    \/ f = "gamepadButton" /\ buttons[f] # UndefinedButton}
    IN  [f \in kept |-> buttons[f]]

(* the SQConfig record as ConfigManager.save stores it and ConfigManager.load reads it *)
JsonConfig(config) ==
    [buttonSet |-> config.buttonSet,
     gamepadName |-> config.gamepadName,
     controlMap |-> [func \in DOMAIN config.controlMap |-> JsonButtons(config.controlMap[func])]]

clamp(x, lo, hi) == IF x < lo THEN lo ELSE IF x > hi THEN hi ELSE x

(* x + n, NaN included *)
add(x, n) == IF x = NotANumber THEN NotANumber ELSE x + n

(* SQInput.changeButtonSet: the remainder of NaN is NaN *)
changeButtonSet(setIndex) ==
    IF setIndex = NotANumber THEN NotANumber ELSE setIndex % numButtonSets

(* a value of the buttonSet property of a config file: a number or a string *)
JsonNumber(n) == [type |-> "number", n |-> n, s |-> ""]
JsonString(str) == [type |-> "string", n |-> 0, s |-> str]

(* the strings parseInt reads as an integer *)
IntegerStrings == ("2" :> 2) @@ ("7" :> 7)

(* parseInt(sqConfig.buttonSet || 0): 0 for the falsy values 0 and "", the
   integer a string starts with, NaN for a string that starts with none *)
parseIntOrZero(value) ==
    IF value.type = "number" THEN value.n
    ELSE IF value.s = "" THEN 0
    ELSE IF value.s \in DOMAIN IntegerStrings THEN IntegerStrings[value.s]
    ELSE NotANumber

(* Number.prototype.clamp: Math.min(Math.max(x, lo), hi), NaN for NaN *)
clampNumber(x, lo, hi) == IF x = NotANumber THEN NotANumber ELSE clamp(x, lo, hi)

(* the button set ConfigManager.applyData passes to changeButtonSet *)
applyButtonSet(value) == changeButtonSet(clampNumber(parseIntOrZero(value), 0, numButtonSets))

(* what ConfigManager.applyData leaves: button set, gamepad name, table *)
applyData(sqConfig, tbl) ==
    [buttonSet |-> changeButtonSet(clamp(sqConfig.buttonSet, 0, numButtonSets)),
     gamepadName |-> sqConfig.gamepadName,
     tbl |-> setControlMap(tbl, sqConfig.controlMap)]

NoConfig == [buttonSet |-> 0, gamepadName |-> NullName, controlMap |-> [x \in {} |-> <<>>]]

(* config.SQConfig of a config file that has no SQConfig section *)
UndefinedConfig == [undefined |-> TRUE]

(* ConfigManager.applyData on a config whose SQConfig section is sqConfig, any of
   its properties possibly missing: `"buttonSet" in sqConfig` throws when the
   section itself is missing, and nothing is applied *)
applyConfig(sqConfig, tbl, buttonSet, gamepadName) ==
    IF "undefined" \in DOMAIN sqConfig
    THEN [threw |-> TRUE, buttonSet |-> buttonSet, gamepadName |-> gamepadName, tbl |-> tbl]
    ELSE [threw |-> FALSE,
          buttonSet |-> IF "buttonSet" \in DOMAIN sqConfig
                        THEN changeButtonSet(clamp(sqConfig.buttonSet, 0, numButtonSets))
                        ELSE changeButtonSet(buttonSet),
          gamepadName |-> IF "gamepadName" \in DOMAIN sqConfig
                          THEN sqConfig.gamepadName
                          ELSE NullName,
          tbl |-> IF "controlMap" \in DOMAIN sqConfig
                  THEN setControlMap(tbl, sqConfig.controlMap)
                  ELSE tbl]

-----------------------------------------------------------------------------
(* the captures: SQInput._keyboardInputCallback, SQInput._gamepadInputCallback *)

(* a callback: null, a handler h of the application (told apart by the arm that
   installed it), or one of the closures of Scene_SQControls.startRemap *)
NoCallback == [kind |-> "none", id |-> 0, target |-> ""]

Handler(id) == [kind |-> "h", id |-> id, target |-> ""]

(* _gamepadInputCallback = null, _gamepadInputCallbackType = null *)
NoGamepadCallback == [cb |-> NoCallback, type |-> "null"]

(* typeof callback === "function" *)
IsFunction(cb) == cb.kind # "none"

(* the history of the captures *)
NoCaptureLog ==
    [arms |-> 0,                \* captures armed so far
     calls |-> <<>>,            \* the handler invocations, in order
     cancelled |-> {},          \* the arms cancelled or replaced while pending
     kbArmed |-> 0,             \* the keyboard arm still to be followed, 0 for none
     kbFirst |-> "",            \* the code of the first keydown since that arm
     kbDowns |-> 0,             \* the keydowns since that arm, up to 2
     kbLast |-> "",             \* the code of the last keydown since that arm
     seen |-> <<>>,             \* the transitions the last poll handed to nextGamepadInputHandler
     pressed |-> UndefinedButton,   \* the button whose press fired the first stage of a gamepad remap
     bound |-> UndefinedButton]     \* the button handed to remapGamepadInputHandler

Call(cb, code, button, type) ==
    [id |-> cb.id, kind |-> cb.kind, code |-> code, button |-> button, type |-> type]

(* the invocations of the handler installed by arm id *)
CallsOf(id) == SelectSeq(captureLog.calls, LAMBDA c : c.id = id)

(* the arms pending in the two tracks *)
Pending ==
    (IF IsFunction(keyboardInputCallback) THEN {keyboardInputCallback.id} ELSE {})
        \cup (IF IsFunction(gamepadInputCallback.cb) THEN {gamepadInputCallback.cb.id} ELSE {})

(* no call has returned yet *)
NoReturn == [call |-> "none", arg |-> "", threw |-> FALSE, value |-> ""]

-----------------------------------------------------------------------------
(* the hardware: navigator.getGamepads() and the keys physically held *)

PadIndexes == {0, 1}

PadId(p) == IF p = 0 THEN "padA" ELSE "padB"

InitGamepads ==
    [p \in PadIndexes |->
        [connected |-> TRUE, id |-> PadId(p), buttons |-> {}, axes |-> [x |-> 0, y |-> 0]]]

threshold == 5      \* 0.5, in tenths of full deflection

(* newState with the four directions read from the stick alone *)
NewStateStickOnly(pad) ==
    (pad.buttons \ {12, 13, 14, 15})
        \cup (IF pad.axes.y < -threshold THEN {12} ELSE IF pad.axes.y > threshold THEN {13} ELSE {})
        \cup (IF pad.axes.x < -threshold THEN {14} ELSE IF pad.axes.x > threshold THEN {15} ELSE {})

(* newState: the buttons pressed, with the left stick beyond the threshold as d-pad *)
NewState(pad) ==
    pad.buttons
        \cup (IF pad.axes.y < -threshold THEN {12} ELSE IF pad.axes.y > threshold THEN {13} ELSE {})
        \cup (IF pad.axes.x < -threshold THEN {14} ELSE IF pad.axes.x > threshold THEN {15} ELSE {})

(* the functions of inflight whose key or active-gamepad button is still held
   when the hardware shows keys and pads *)
StillHeld(keys, pads) ==
    {f \in inflight :
        \/ inputs[f].keyboardButton \in keys
        \/ /\ activeGamepadIndex \in DOMAIN pads
           /\ pads[activeGamepadIndex].connected
           /\ inputs[f].gamepadButton \in NewState(pads[activeGamepadIndex])}

NoFrame == [edges |-> {}, buttonEdges |-> {}, otherEdges |-> {}, keyEdges |-> {}, reset |-> FALSE]

NoQuiet == [kind |-> "none", input |-> "", frames |-> 0]

(* the name of button b of gamepad p in the history *)
PadInput(p, b) == ToString(p) \o ":" \o ToString(b)

-----------------------------------------------------------------------------
(* the state after Input.initialize (the engine's, then SQInput.initialize) *)

InitWith(controls) ==
    LET t == initialize(controls)
    IN  /\ customControls = controls
        /\ inputKeys = t.keys
        /\ inputs = t.tbl
        /\ keyMapper = newKeyboardMap(t.keys, t.tbl)
        /\ gamepadMapper = newGamepadMap(t.keys, t.tbl)
        /\ activeButtonSet = 0
        /\ targetGamepadName = NullName
        /\ activeGamepadIndex = NullIndex
        /\ lastInputDevice = "keyboard"
        /\ resetMapFlag = FALSE
        /\ currentState = [keys |-> <<>>, val |-> [x \in {} |-> FALSE]]
        /\ previousState = [x \in {} |-> FALSE]
        /\ latestButton = NullLatest
        /\ pressedTime = 0
        /\ gamepadStates = NoGamepadStates
        /\ keysDown = {}
        /\ gamepads = InitGamepads
        /\ savedConfig = [saved |-> FALSE, data |-> NoConfig]
        /\ lastOp = "initialize"
        /\ holdFrames = 0
        /\ resetsInHold = 0
        /\ frameLog = NoFrame
        /\ freshKeys = {}
        /\ lastPolled = [p \in PadIndexes |-> {}]
        /\ quiet = NoQuiet
        /\ keyEvents = 0
        /\ keyboardInputCallback = NoCallback
        /\ gamepadInputCallback = NoGamepadCallback
        /\ documentActiveGamepadIndex = NullIndex
        /\ captureLog = NoCaptureLog
        /\ inflight = {}
        /\ returned = NoReturn

Init == \E controls \in ControlsParams : InitWith(controls)

-----------------------------------------------------------------------------
(* the operations on the binding table *)

(* setControlButton dropping the pending keyboard capture *)
SetControlButtonCancels(control, keyCode, type) ==
    /\ IF control \in DOMAIN inputs
       THEN LET tbl == setControlButton(inputKeys, inputs, control, keyCode, type)
            IN  /\ inputs' = tbl
                /\ rebuildButtonMapper(inputKeys, tbl, currentState, previousState)
       ELSE UNCHANGED <<inputs, keyMapper, gamepadMapper, logicalVars>>
    /\ keyboardInputCallback' = NoCallback
    /\ UNCHANGED <<customControls, inputKeys, deviceVars, resetMapFlag, hardwareVars, savedConfig,
                   historyVars, gamepadInputCallback, documentActiveGamepadIndex, captureLog>>
    /\ quiet' = NoQuiet

(* SQInput.setControlButton(control, keyCode, type), the early return included *)
SetControlButton(control, keyCode, type) ==
    /\ IF control \in DOMAIN inputs
       THEN LET tbl == setControlButton(inputKeys, inputs, control, keyCode, type)
            IN  /\ inputs' = tbl
                /\ rebuildButtonMapper(inputKeys, tbl, currentState, previousState)
       ELSE UNCHANGED <<inputs, keyMapper, gamepadMapper, logicalVars>>
    /\ UNCHANGED <<customControls, inputKeys, deviceVars, resetMapFlag, hardwareVars, savedConfig,
                   historyVars, captureVars, captureLog>>
    /\ quiet' = NoQuiet

(* setKeyboardButton leaving the function that held the key without a key *)
SetKeyboardButtonUnbinds(control, keyCode) ==
    LET dup == duplicateFunction(inputKeys, inputs, control, keyCode, "keyboardButton")
        unbound == IF dup # ""
                   THEN [inputs EXCEPT ![dup].keyboardButton = UndefinedKey]
                   ELSE inputs
    IN  /\ IF control \in DOMAIN inputs
           THEN /\ inputs' = [unbound EXCEPT ![control].keyboardButton = keyCode]
                /\ rebuildButtonMapper(inputKeys,
                                       [unbound EXCEPT ![control].keyboardButton = keyCode],
                                       currentState, previousState)
           ELSE UNCHANGED <<inputs, keyMapper, gamepadMapper, logicalVars>>
        /\ UNCHANGED <<customControls, inputKeys, deviceVars, resetMapFlag, hardwareVars,
                       savedConfig, historyVars, captureVars, captureLog>>
        /\ quiet' = NoQuiet
        /\ lastOp' = "setKeyboardButton"
        /\ UNCHANGED <<inflight, returned>>

SetKeyboardButton(control, keyCode) ==
    /\ SetControlButton(control, keyCode, "keyboardButton")
    /\ lastOp' = "setKeyboardButton"
    /\ UNCHANGED <<inflight, returned>>

SetGamepadButton(control, buttonIndex) ==
    /\ SetControlButton(control, buttonIndex, "gamepadButton")
    /\ lastOp' = "setGamepadButton"
    /\ UNCHANGED <<inflight, returned>>

(* SQInput.resetMap *)
ResetMap ==
    /\ inputs' = resetMap(inputs)
    /\ rebuildButtonMapper(inputKeys, resetMap(inputs), currentState, previousState)
    /\ lastOp' = "resetMap"
    /\ UNCHANGED <<customControls, inputKeys, deviceVars, resetMapFlag, hardwareVars, savedConfig,
                   historyVars, captureVars, captureLog, inflight, returned>>
    /\ quiet' = NoQuiet

(* SQInput.nextButtonSet *)
NextButtonSet ==
    /\ activeButtonSet' = changeButtonSet(add(activeButtonSet, 1))
    /\ lastOp' = "nextButtonSet"
    /\ UNCHANGED <<tableVars, targetGamepadName, activeGamepadIndex, lastInputDevice,
                   resetMapFlag, logicalVars, hardwareVars, savedConfig, historyVars,
                   captureVars, captureLog, inflight, returned>>
    /\ quiet' = NoQuiet

(* SQInput.setTargetGamepadIndex(gamepadIndex) *)
SetTargetGamepadIndex(gamepadIndex) ==
    /\ targetGamepadName' =
          IF gamepadIndex \in DOMAIN gamepads /\ gamepads[gamepadIndex].connected
          THEN gamepads[gamepadIndex].id
          ELSE targetGamepadName
    /\ lastOp' = "setTargetGamepadIndex"
    /\ UNCHANGED <<tableVars, activeButtonSet, activeGamepadIndex, lastInputDevice,
                   resetMapFlag, logicalVars, hardwareVars, savedConfig, historyVars,
                   captureVars, captureLog, inflight, returned>>
    /\ quiet' = NoQuiet

(* ConfigManager.save: makeData written through JSON *)
Save ==
    /\ savedConfig' = [saved |-> TRUE,
                       data |-> JsonConfig(makeData(inputs, activeButtonSet, targetGamepadName))]
    /\ lastOp' = "save"
    /\ UNCHANGED <<tableVars, deviceVars, resetMapFlag, logicalVars, hardwareVars, historyVars,
                   captureVars, captureLog, inflight, returned>>
    /\ quiet' = NoQuiet

(* ConfigManager.load of the saved file: applyData *)
Load ==
    /\ savedConfig.saved
    /\ LET r == applyData(savedConfig.data, inputs)
       IN  /\ activeButtonSet' = r.buttonSet
           /\ targetGamepadName' = r.gamepadName
           /\ inputs' = r.tbl
           /\ rebuildButtonMapper(inputKeys, r.tbl, currentState, previousState)
    /\ lastOp' = "load"
    /\ UNCHANGED <<customControls, inputKeys, activeGamepadIndex, lastInputDevice, resetMapFlag,
                   hardwareVars, savedConfig, historyVars, captureVars, captureLog, inflight, returned>>
    /\ quiet' = NoQuiet

-----------------------------------------------------------------------------
(* the rebind calls alone *)

RebindControls == {"cancel", "confirm", "jump", "nosuch"}
RebindCodes == {"KeyZ", "Tab", "Space"}
RebindButtons == {0, 2, 9}

Rebind ==
    \/ \E control \in RebindControls, keyCode \in RebindCodes :
          SetKeyboardButton(control, keyCode)
    \/ \E control \in RebindControls, buttonIndex \in RebindButtons :
          SetGamepadButton(control, buttonIndex)

SpecRebind == Init /\ [][Rebind]_vars

(* rebinds to the keys and buttons of other functions and back, with one save *)

UndoControls == {"cancel", "jump"}
UndoCodes == {"KeyZ", "KeyX", "Tab"}
UndoButtons == {0, 1}

UndoNext ==
    \/ \E control \in UndoControls, keyCode \in UndoCodes :
          SetKeyboardButton(control, keyCode)
    \/ \E control \in UndoControls, buttonIndex \in UndoButtons :
          SetGamepadButton(control, buttonIndex)
    \/ ~savedConfig.saved /\ Save

SpecUndo == Init /\ [][UndoNext]_vars

(* rebinds, reset, button set, gamepad selection, save and load *)

TableControls == {"confirm", "jump"}
TableCodes == {"Tab"}
TableButtons == {1}
TablePads == {1}

TableNext ==
    \/ \E control \in TableControls, keyCode \in TableCodes :
          SetKeyboardButton(control, keyCode)
    \/ \E buttonIndex \in TableButtons : SetGamepadButton("jump", buttonIndex)
    \/ ResetMap
    \/ NextButtonSet
    \/ \E gamepadIndex \in TablePads : SetTargetGamepadIndex(gamepadIndex)
    \/ Save
    \/ Load

SpecTable == Init /\ [][TableNext]_vars

-----------------------------------------------------------------------------
(* Input._currentState as an object: writes and reads *)

(* this._currentState[name] = v; a new name is added after the existing ones *)
SetState(cs, name, v) ==
    [keys |-> IF name \in DOMAIN cs.val THEN cs.keys ELSE Append(cs.keys, name),
     val |-> Put(cs.val, name, v)]

(* for (let b of buttonNames) this._currentState[b] = v *)
RECURSIVE SetStates(_, _, _)
SetStates(cs, buttonNames, v) ==
    IF buttonNames = <<>> THEN cs
    ELSE SetStates(SetState(cs, Head(buttonNames), v), Tail(buttonNames), v)

(* !!obj[name] *)
Truthy(val, name) == name \in DOMAIN val /\ val[name]

-----------------------------------------------------------------------------
(* the keyboard: Input._onKeyDown, SQInput.nextKeyboardInputHandler, Input._onKeyUp *)

(* the names of a key: this.keyMapper[event.code], nothing when there is no entry *)
ButtonNames(code) == IF code \in DOMAIN keyMapper THEN keyMapper[code] ELSE <<>>

(* nextKeyboardInputHandler leaving the callback installed *)
keyboardCallbackKept(cb) == cb

(* this._keyboardInputCallback after nextKeyboardInputHandler has invoked it *)
keyboardCallbackAfter(cb) == NoCallback

(* ConfigManager.save after a remap: the file written from the table tbl *)
SavedAfter(tbl) ==
    [saved |-> TRUE, data |-> JsonConfig(makeData(tbl, activeButtonSet, targetGamepadName))]

(* a keydown event of the document: the first press of a key or its auto-repeat
   while held.  Input._onKeyDown runs first, then SQInput.nextKeyboardInputHandler,
   which invokes the armed callback: a handler h, or remapKeyboardInputHandler
   (setKeyboardButton unless the key is Escape, ConfigManager.save, cancelRemap) *)
KeyDownEvent(code) ==
    LET cb == keyboardInputCallback
        fire == IsFunction(cb)
        remap == fire /\ cb.kind = "remapKeyboard" /\ code # "Escape"
        tbl == IF remap
               THEN setControlButton(inputKeys, inputs, cb.target, code, "keyboardButton")
               ELSE inputs
        pressed == SetStates(currentState, ButtonNames(code), TRUE)
    IN  /\ IF remap
           THEN /\ inputs' = tbl
                /\ rebuildButtonMapper(inputKeys, tbl, pressed, previousState)
                /\ savedConfig' = SavedAfter(tbl)
           ELSE /\ currentState' = pressed
                /\ UNCHANGED <<inputs, keyMapper, gamepadMapper, previousState, latestButton,
                               pressedTime, gamepadStates, savedConfig>>
        /\ keyboardInputCallback' = IF fire THEN keyboardCallbackAfter(cb) ELSE cb
        /\ gamepadInputCallback' = IF fire /\ cb.kind = "remapKeyboard"
                                   THEN NoGamepadCallback
                                   ELSE gamepadInputCallback
        /\ captureLog' =
              [captureLog EXCEPT
                  !.calls = IF fire THEN Append(@, Call(cb, code, UndefinedButton, "keydown")) ELSE @,
                  !.kbFirst = IF captureLog.kbArmed # 0 /\ @ = "" THEN code ELSE @,
                  !.kbLast = IF captureLog.kbArmed # 0 THEN code ELSE @,
                  !.kbDowns = IF captureLog.kbArmed # 0 /\ @ < 2 THEN @ + 1 ELSE @]
        /\ lastInputDevice' = "keyboard"
        /\ keysDown' = keysDown \cup {code}
        /\ UNCHANGED <<customControls, inputKeys, activeButtonSet, targetGamepadName,
                       activeGamepadIndex, resetMapFlag, gamepads, documentActiveGamepadIndex>>

(* a keyup event of a key that is held *)
KeyUpEvent(code) ==
    /\ code \in keysDown
    /\ currentState' = SetStates(currentState, ButtonNames(code), FALSE)
    /\ keysDown' = keysDown \ {code}
    /\ UNCHANGED <<tableVars, deviceVars, resetMapFlag, previousState, latestButton,
                   pressedTime, gamepadStates, gamepads, savedConfig, captureVars, captureLog>>

(* the hold history: a release of Escape or Tab ends the hold *)
KeyUpHold(code) ==
    /\ holdFrames' = IF code \in {"Escape", "Tab"} THEN 0 ELSE holdFrames
    /\ resetsInHold' = IF code \in {"Escape", "Tab"} THEN 0 ELSE resetsInHold

(* the frame history is not kept *)
NoFrameHistory == UNCHANGED frameHistory

KeyDown(code) ==
    /\ KeyDownEvent(code)
    /\ freshKeys' = IF code \in keysDown THEN freshKeys ELSE freshKeys \cup {code}
    /\ quiet' = IF code \in keysDown THEN quiet ELSE [kind |-> "key", input |-> code, frames |-> 0]
    /\ lastOp' = "keydown"
    /\ UNCHANGED <<lastPolled, frameLog, holdFrames, resetsInHold, keyEvents, inflight, returned>>

KeyUp(code) ==
    /\ KeyUpEvent(code)
    /\ KeyUpHold(code)
    /\ freshKeys' = freshKeys \ {code}
    /\ quiet' = NoQuiet
    /\ lastOp' = "keyup"
    /\ UNCHANGED returned
    /\ inflight' = StillHeld(keysDown \ {code}, gamepads)
    /\ UNCHANGED <<lastPolled, frameLog, keyEvents>>

-----------------------------------------------------------------------------
(* the gamepads: the hardware changes between two polls *)

(* button b of gamepad p goes down: the hardware alone *)
PadPressEvent(p, b) ==
    /\ gamepads[p].connected
    /\ b \notin gamepads[p].buttons
    /\ gamepads' = [gamepads EXCEPT ![p].buttons = @ \cup {b}]
    /\ UNCHANGED <<tableVars, deviceVars, resetMapFlag, logicalVars, keysDown, savedConfig,
                   captureVars, captureLog>>

(* button b of gamepad p goes up: the hardware alone *)
PadReleaseEvent(p, b) ==
    /\ gamepads[p].connected
    /\ b \in gamepads[p].buttons
    /\ gamepads' = [gamepads EXCEPT ![p].buttons = @ \ {b}]
    /\ UNCHANGED <<tableVars, deviceVars, resetMapFlag, logicalVars, keysDown, savedConfig,
                   captureVars, captureLog>>

PadPress(p, b) ==
    /\ PadPressEvent(p, b)
    /\ quiet' = [kind |-> "button", input |-> PadInput(p, b), frames |-> 0]
    /\ lastOp' = "padPress"
    /\ UNCHANGED <<freshKeys, lastPolled, holdFrames, resetsInHold, frameLog, keyEvents, inflight, returned>>

PadRelease(p, b) ==
    /\ PadReleaseEvent(p, b)
    /\ quiet' = NoQuiet
    /\ lastOp' = "padRelease"
    /\ UNCHANGED returned
    /\ inflight' = StillHeld(keysDown, [gamepads EXCEPT ![p].buttons = @ \ {b}])
    /\ UNCHANGED <<freshKeys, lastPolled, holdFrames, resetsInHold, frameLog, keyEvents>>

(* the left stick of gamepad p moves to (x, y), in tenths of full deflection *)
PadStickEvent(p, x, y) ==
    /\ gamepads[p].connected
    /\ gamepads[p].axes # [x |-> x, y |-> y]
    /\ gamepads' = [gamepads EXCEPT ![p].axes = [x |-> x, y |-> y]]
    /\ UNCHANGED <<tableVars, deviceVars, resetMapFlag, logicalVars, keysDown, savedConfig,
                   captureVars, captureLog>>

PadStick(p, x, y) ==
    /\ PadStickEvent(p, x, y)
    /\ quiet' = NoQuiet
    /\ lastOp' = "padStick"
    /\ UNCHANGED returned
    /\ inflight' = StillHeld(keysDown, [gamepads EXCEPT ![p].axes = [x |-> x, y |-> y]])
    /\ UNCHANGED <<freshKeys, lastPolled, holdFrames, resetsInHold, frameLog, keyEvents>>

-----------------------------------------------------------------------------
(* SQInput.updateActiveGamepad *)

Min(S) == CHOOSE x \in S : \A y \in S : x <= y

updateActiveGamepad(active, targetName, pads) ==
    LET connected == {p \in DOMAIN pads : pads[p].connected}
        named == {p \in connected : pads[p].id = targetName}
        byName == IF targetName # NullName /\ targetName # "" /\ named # {}
                  THEN Min(named)
                  ELSE active
    IN  IF (byName = NullIndex \/ byName = 0) /\ connected # {}
        THEN Min(connected)
        ELSE byName

-----------------------------------------------------------------------------
(* the gamepad poll: SQInput.originalUpdateGamepadState, Input._updateGamepadState *)

(* newState[j] !== lastState[j]; a gamepad with no stored state has lastState = [] *)
Differs(gs, p, newState, j) ==
    IF p \in DOMAIN gs THEN (j \in newState) # (j \in gs[p]) ELSE TRUE

(* the loop over j of originalUpdateGamepadState, from button j on, with
   Input.gamepadMapper = gmap *)
RECURSIVE ApplyButtons(_, _, _, _, _, _)
ApplyButtons(cs, gs, p, newState, j, gmap) ==
    IF j >= padButtonCount THEN cs
    ELSE LET names == IF j \in DOMAIN gmap THEN gmap[j] ELSE <<>>
             next == IF Differs(gs, p, newState, j)
                     THEN SetStates(cs, names, j \in newState)
                     ELSE cs
         IN  ApplyButtons(next, gs, p, newState, j + 1, gmap)

(* the first index below originalState.length at which the stored state changed:
   the transition handed to nextGamepadInputHandler; none for a gamepad that had
   no stored state *)
FirstTransition(gs, gs2, p) ==
    IF p \notin DOMAIN gs \/ p \notin DOMAIN gs2 THEN {}
    ELSE LET changed == {i \in PadButtons : (i \in gs[p]) # (i \in gs2[p])}
         IN  IF changed = {} THEN {} ELSE {Min(changed)}

(* newState[i] === true ? "press" : "release" *)
TransitionType(gs2, p, i) == IF i \in gs2[p] THEN "press" ELSE "release"

(* the state a poll works on: Input._currentState (cs), _gamepadStates (gs),
   _latestButton (latest), _pressedTime (time), SQInput.activeGamepadIndex (active),
   lastInputDevice (last), the captures (kcb, gcb), SQInput.inputs (tbl),
   Input.keyMapper (kmap), Input.gamepadMapper (gmap), the config file (saved),
   the handler invocations made (fired) and the transitions handed to
   nextGamepadInputHandler (seen) *)
PollStart ==
    [cs |-> currentState, gs |-> gamepadStates, latest |-> latestButton, time |-> pressedTime,
     active |-> activeGamepadIndex, last |-> lastInputDevice,
     kcb |-> keyboardInputCallback, gcb |-> gamepadInputCallback,
     tbl |-> inputs, kmap |-> keyMapper, gmap |-> gamepadMapper,
     saved |-> savedConfig, fired |-> <<>>, seen |-> <<>>]

(* the closure armed by startRemap for the press: it arms remapGamepadInputHandler
   for the next release *)
remapPressCallback(st, cb) ==
    [st EXCEPT !.gcb = [cb |-> [cb EXCEPT !.kind = "remapRelease"], type |-> "release"]]

(* Scene_SQControls.remapGamepadInputHandler(targetFunction, buttonIndex, type):
   setGamepadButton (rebuildButtonMapper and Input.clear included),
   ConfigManager.save, cancelRemap *)
remapGamepadInputHandler(st, cb, buttonIndex, type) ==
    LET tbl == setControlButton(inputKeys, st.tbl, cb.target, buttonIndex, "gamepadButton")
        bound == IF type = "release"
                 THEN [st EXCEPT !.tbl = tbl,
                                 !.kmap = newKeyboardMap(inputKeys, tbl),
                                 !.gmap = newGamepadMap(inputKeys, tbl),
                                 !.cs = ClearedCurrent(st.cs),
                                 !.gs = NoGamepadStates,
                                 !.latest = NullLatest,
                                 !.time = 0,
                                 !.saved = SavedAfter(tbl)]
                 ELSE st
    IN  [bound EXCEPT !.gcb = NoGamepadCallback, !.kcb = NoCallback]

(* callback(buttonIndex, type) *)
InvokeGamepadCallback(st, cb, buttonIndex, type) ==
    LET logged == [st EXCEPT !.fired = Append(@, Call(cb, "", buttonIndex, type))]
    IN  CASE cb.kind = "remapPress" -> remapPressCallback(logged, cb)
          [] cb.kind = "remapRelease" -> remapGamepadInputHandler(logged, cb, buttonIndex, type)
          [] OTHER -> logged

(* this._gamepadInputCallbackType === type *)
callbackTypeIgnored(expected, type) == TRUE

callbackTypeMatches(expected, type) == expected = type

(* SQInput.nextGamepadInputHandler(buttonIndex, type): the armed callback, cleared
   before it is invoked, then the device switch *)
nextGamepadInputHandler(st, buttonIndex, type) ==
    LET cb == st.gcb.cb
        handed == [st EXCEPT !.seen = Append(@, [button |-> buttonIndex, type |-> type])]
        called == IF IsFunction(cb) /\ callbackTypeMatches(st.gcb.type, type)
                  THEN InvokeGamepadCallback([handed EXCEPT !.gcb = NoGamepadCallback],
                                             cb, buttonIndex, type)
                  ELSE handed
    IN  IF called.last # "gamepad"
        THEN [called EXCEPT
                !.active = updateActiveGamepad(called.active, targetGamepadName, gamepads),
                !.last = "gamepad"]
        ELSE called

(* gamepad.index === SQInput.activeGamepadIndex *)
isAnyGamepad(p, active) == TRUE

isActiveGamepad(p, active) == p = active

(* Input._updateGamepadState(gamepads[p]) *)
UpdateGamepadState(st, p) ==
    LET active == IF st.active = NullIndex
                  THEN updateActiveGamepad(st.active, targetGamepadName, gamepads)
                  ELSE st.active
        newState == NewState(gamepads[p])
        polled == IF isActiveGamepad(p, active)
                  THEN [st EXCEPT !.active = active,
                                  !.cs = ApplyButtons(st.cs, st.gs, p, newState, 0, st.gmap),
                                  !.gs = Put(st.gs, p, newState)]
                  ELSE [st EXCEPT !.active = active]
        first == FirstTransition(st.gs, polled.gs, p)
    IN  IF first # {}
        THEN LET i == CHOOSE x \in first : TRUE
             IN  nextGamepadInputHandler(polled, i, TransitionType(polled.gs, p, i))
        ELSE polled

(* Input._pollGamepads: every connected gamepad, by index *)
RECURSIVE PollGamepads(_, _)
PollGamepads(st, p) ==
    IF p \notin PadIndexes THEN st
    ELSE PollGamepads(IF gamepads[p].connected THEN UpdateGamepadState(st, p) ELSE st, p + 1)

-----------------------------------------------------------------------------
(* Input.update *)

(* the loop over the names of _currentState: the press edges are pushed onto
   _latestButton in the order of the object's keys *)
RECURSIVE PressEdges(_, _, _)
PressEdges(keys, cur, prev) ==
    IF keys = <<>> THEN <<>>
    ELSE IF cur[Head(keys)] /\ ~Truthy(prev, Head(keys))
         THEN <<Head(keys)>> \o PressEdges(Tail(keys), cur, prev)
         ELSE PressEdges(Tail(keys), cur, prev)

(* Input._isEscapeCompatible *)
isEscapeCompatible(keyName) == keyName = "cancel" \/ keyName = "menu"

(* Input.isPressed on _currentState = val *)
IsPressedIn(val, keyName) ==
    IF isEscapeCompatible(keyName) /\ Truthy(val, "escape") THEN TRUE ELSE Truthy(val, keyName)

(* SQInput.isVeryLongPressed *)
IsVeryLongPressedIn(val, time, keyName) ==
    IsPressedIn(val, keyName) /\ time >= veryLongPressTime

(* what Input.update computes once the gamepads are polled *)
Frame(st) ==
    LET latest0 == IF st.latest.isNull THEN <<>> ELSE st.latest.names
        counting == latest0 # <<>> /\ Truthy(st.cs.val, latest0[1])
        time1 == IF counting THEN st.time + 1 ELSE st.time
        latest1 == IF counting THEN latest0 ELSE <<>>
        edges == PressEdges(st.cs.keys, st.cs.val, previousState)
        time2 == IF edges # <<>> THEN 0 ELSE time1
        longPressEscape == \/ IsVeryLongPressedIn(st.cs.val, time2, "escape")
                           \/ IsVeryLongPressedIn(st.cs.val, time2, "static_escape")
        longPressTab == \/ IsVeryLongPressedIn(st.cs.val, time2, "tab")
                        \/ IsVeryLongPressedIn(st.cs.val, time2, "static_tab")
    IN  [edges |-> edges,
         latest |-> latest1 \o edges,
         time |-> time2,
         longPress |-> longPressEscape /\ longPressTab,
         reset |-> longPressEscape /\ longPressTab /\ ~resetMapFlag]

(* the capture history after a poll that made the invocations fired and handed
   the transitions seen; the transitions are kept once a capture has been armed *)
LogFired(fired, seen) ==
    LET stage(kind) == SelectSeq(fired, LAMBDA c : c.kind = kind)
    IN  [captureLog EXCEPT
            !.calls = @ \o fired,
            !.seen = IF captureLog.arms > 0 THEN seen ELSE @,
            !.pressed = IF stage("remapPress") # <<>> THEN stage("remapPress")[1].button ELSE @,
            !.bound = IF stage("remapRelease") # <<>> THEN stage("remapRelease")[1].button ELSE @]

(* the state Input.update leaves; maxTime bounds _pressedTime *)
UpdateState(st, fr, maxTime) ==
    /\ fr.time <= maxTime
    /\ Len(fr.latest) <= MaxLatest
    /\ activeGamepadIndex' = st.active
    /\ lastInputDevice' = st.last
    /\ IF fr.reset
       THEN /\ inputs' = resetMap(st.tbl)
            /\ rebuildButtonMapper(inputKeys, resetMap(st.tbl), st.cs, st.cs.val)
            /\ resetMapFlag' = TRUE
       ELSE /\ inputs' = st.tbl
            /\ keyMapper' = st.kmap
            /\ gamepadMapper' = st.gmap
            /\ currentState' = st.cs
            /\ previousState' = st.cs.val
            /\ gamepadStates' = st.gs
            /\ latestButton' = [isNull |-> FALSE, names |-> fr.latest]
            /\ pressedTime' = fr.time
            /\ resetMapFlag' = IF ~fr.longPress THEN FALSE ELSE resetMapFlag
    /\ savedConfig' = st.saved
    /\ keyboardInputCallback' = st.kcb
    /\ gamepadInputCallback' = st.gcb
    /\ captureLog' = LogFired(st.fired, st.seen)
    /\ UNCHANGED <<customControls, inputKeys, activeButtonSet, targetGamepadName,
                   keysDown, gamepads, documentActiveGamepadIndex, inflight, returned>>

(* the hold history: the updates with Escape and Tab physically held, the resets made *)
UpdateHold(fr, maxTime) ==
    LET holding == {"Escape", "Tab"} \subseteq keysDown
    IN  /\ holdFrames <= maxTime
        /\ holdFrames' = IF holding THEN holdFrames + 1 ELSE 0
        /\ resetsInHold' = IF ~holding THEN 0
                           ELSE IF fr.reset /\ resetsInHold < 2 THEN resetsInHold + 1
                           ELSE resetsInHold

(* the frame history *)
UpdateHistory(st, fr, maxTime) ==
    /\ frameLog' = [edges |-> Range(fr.edges),
                    buttonEdges |-> IF st.active \in PadIndexes /\ gamepads[st.active].connected
                                    THEN NewState(gamepads[st.active]) \ lastPolled[st.active]
                                    ELSE {},
                    otherEdges |-> {q \in PadIndexes \ {st.active} :
                                       /\ gamepads[q].connected
                                       /\ NewState(gamepads[q]) # lastPolled[q]},
                    keyEdges |-> freshKeys,
                    reset |-> fr.reset]
    /\ freshKeys' = {}
    /\ lastPolled' = [p \in PadIndexes |->
                        IF gamepads[p].connected THEN NewState(gamepads[p]) ELSE {}]
    /\ quiet' = IF quiet.kind = "none" \/ fr.reset THEN NoQuiet
                ELSE [quiet EXCEPT !.frames = IF @ <= maxTime THEN @ + 1 ELSE @]
    /\ lastOp' = "update"
    /\ UNCHANGED keyEvents

Polled == PollGamepads(PollStart, 0)

(* Input.update: poll, hold time, press edges, failsafe *)
Update(maxTime) ==
    \E st \in {Polled} : \E fr \in {Frame(st)} :
        /\ UpdateState(st, fr, maxTime)
        /\ UpdateHold(fr, maxTime)
        /\ UpdateHistory(st, fr, maxTime)

-----------------------------------------------------------------------------
(* the queries of the rest of the application, made after Input.update *)

isPressed(keyName) == IsPressedIn(currentState.val, keyName)

(* Input.isTriggered reads this._latestButton.contains: it throws while
   _latestButton is null *)
queryThrows == latestButton.isNull

isTriggered(keyName) ==
    IF isEscapeCompatible(keyName) /\ Contains(latestButton.names, "escape") /\ pressedTime = 0
    THEN TRUE
    ELSE Contains(latestButton.names, keyName) /\ pressedTime = 0

RepeatPulse(keyName) ==
    /\ Contains(latestButton.names, keyName)
    /\ \/ pressedTime = 0
       \/ pressedTime >= keyRepeatWait /\ pressedTime % keyRepeatInterval = 0

isRepeated(keyName) ==
    IF isEscapeCompatible(keyName) /\ RepeatPulse("escape") THEN TRUE ELSE RepeatPulse(keyName)

-----------------------------------------------------------------------------
(* arming and cancelling the captures *)

(* what an arm or a cancel leaves alone *)
CaptureFrameClears ==
    /\ currentState' = ClearedCurrent(currentState)
    /\ latestButton' = NullLatest
    /\ pressedTime' = 0
    /\ gamepadStates' = NoGamepadStates
    /\ UNCHANGED <<tableVars, deviceVars, resetMapFlag, previousState, hardwareVars, savedConfig,
                   historyVars, quiet, documentActiveGamepadIndex, inflight, returned>>

CaptureFrame ==
    UNCHANGED <<tableVars, deviceVars, resetMapFlag, logicalVars, hardwareVars, savedConfig,
                historyVars, quiet, documentActiveGamepadIndex, inflight, returned>>

(* the pending captures an assignment to the tracks in tracks overwrites *)
Overwritten(tracks, by) ==
    (IF "keyboard" \in tracks /\ IsFunction(keyboardInputCallback)
     THEN {[id |-> keyboardInputCallback.id, track |-> "keyboard", by |-> by]} ELSE {})
        \cup (IF "gamepad" \in tracks /\ IsFunction(gamepadInputCallback.cb)
              THEN {[id |-> gamepadInputCallback.cb.id, track |-> gamepadInputCallback.type, by |-> by]}
              ELSE {})

(* cancelOnNextKeyboardInput leaving the callback installed *)
cancelKeepsCallback(cb) == cb

(* SQInput.cancelOnNextKeyboardInput: the callback it leaves *)
cancelOnNextKeyboardInput(cb) == NoCallback

(* SQInput.cancelOnNextGamepadInput: the callback and type it leaves *)
cancelOnNextGamepadInput(gcb) == NoGamepadCallback

(* SQInput.onNextKeyboardInput(h) *)
OnNextKeyboardInput ==
    /\ captureLog.arms < MaxArms
    /\ keyboardInputCallback' = Handler(captureLog.arms + 1)
    /\ captureLog' = [captureLog EXCEPT !.arms = @ + 1,
                                        !.cancelled = @ \cup Overwritten({"keyboard"}, "arm"),
                                        !.kbArmed = captureLog.arms + 1,
                                        !.kbFirst = "", !.kbLast = "", !.kbDowns = 0]
    /\ lastOp' = "onNextKeyboardInput"
    /\ UNCHANGED gamepadInputCallback
    /\ CaptureFrame

(* SQInput.onNextGamepadPress(h), SQInput.onNextGamepadRelease(h);
   onNextGamepadInput(h) is onNextGamepadPress(h) *)
OnNextGamepad(type) ==
    /\ captureLog.arms < MaxArms
    /\ gamepadInputCallback' = [cb |-> Handler(captureLog.arms + 1), type |-> type]
    /\ captureLog' = [captureLog EXCEPT !.arms = @ + 1,
                                        !.cancelled = @ \cup Overwritten({"gamepad"}, "arm")]
    /\ lastOp' = "onNextGamepad"
    /\ UNCHANGED keyboardInputCallback
    /\ CaptureFrame

OnNextGamepadPress == OnNextGamepad("press")

OnNextGamepadRelease == OnNextGamepad("release")

CancelOnNextKeyboardInput ==
    /\ keyboardInputCallback' = cancelOnNextKeyboardInput(keyboardInputCallback)
    /\ captureLog' = [captureLog EXCEPT !.cancelled = @ \cup Overwritten({"keyboard"}, "cancel"),
                                        !.kbArmed = 0, !.kbFirst = "", !.kbLast = "", !.kbDowns = 0]
    /\ lastOp' = "cancelOnNextKeyboardInput"
    /\ UNCHANGED gamepadInputCallback
    /\ CaptureFrame

CancelOnNextGamepadInput ==
    /\ gamepadInputCallback' = cancelOnNextGamepadInput(gamepadInputCallback)
    /\ captureLog' = [captureLog EXCEPT !.cancelled = @ \cup Overwritten({"gamepad"}, "cancel")]
    /\ lastOp' = "cancelOnNextGamepadInput"
    /\ UNCHANGED keyboardInputCallback
    /\ CaptureFrame

(* Scene_SQControls.startRemap on the gamepad column of function target *)
StartRemapGamepad(target) ==
    /\ captureLog.arms < MaxArms
    /\ target \in DOMAIN inputs
    /\ gamepadInputCallback' =
          [cb |-> [kind |-> "remapPress", id |-> captureLog.arms + 1, target |-> target],
           type |-> "press"]
    /\ captureLog' = [captureLog EXCEPT !.arms = @ + 1,
                                        !.cancelled = @ \cup Overwritten({"gamepad"}, "arm"),
                                        !.pressed = UndefinedButton, !.bound = UndefinedButton]
    /\ lastOp' = "startRemap"
    /\ UNCHANGED keyboardInputCallback
    /\ CaptureFrame

(* Scene_SQControls.startRemap on the keyboard column of function target *)
StartRemapKeyboard(target) ==
    /\ captureLog.arms < MaxArms
    /\ target \in DOMAIN inputs
    /\ keyboardInputCallback' =
          [kind |-> "remapKeyboard", id |-> captureLog.arms + 1, target |-> target]
    /\ captureLog' = [captureLog EXCEPT !.arms = @ + 1,
                                        !.cancelled = @ \cup Overwritten({"keyboard"}, "arm"),
                                        !.kbArmed = captureLog.arms + 1,
                                        !.kbFirst = "", !.kbLast = "", !.kbDowns = 0]
    /\ lastOp' = "startRemap"
    /\ UNCHANGED gamepadInputCallback
    /\ CaptureFrame

(* Scene_SQControls.cancelRemap *)
CancelRemap ==
    /\ gamepadInputCallback' = cancelOnNextGamepadInput(gamepadInputCallback)
    /\ keyboardInputCallback' = cancelOnNextKeyboardInput(keyboardInputCallback)
    /\ captureLog' = [captureLog EXCEPT
                         !.cancelled = @ \cup Overwritten({"keyboard", "gamepad"}, "cancel"),
                         !.kbArmed = 0, !.kbFirst = "", !.kbLast = "", !.kbDowns = 0]
    /\ lastOp' = "cancelRemap"
    /\ CaptureFrame

-----------------------------------------------------------------------------
(* frames with the keyboard *)

FrameKeys == {"KeyZ", "KeyQ"}

InitKeys == InitWith(<<JumpControl>>)

KeysNext ==
    \/ \E code \in FrameKeys : KeyDown(code)
    \/ \E code \in FrameKeys : KeyUp(code)
    \/ Update(MaxFrames)

SpecKeys == InitKeys /\ [][KeysNext]_vars

-----------------------------------------------------------------------------
(* frames with the active gamepad and gamepad rebinds, from the default table *)

PadButtonsUsed == {0, 1}

InitPad == InitWith(<<>>)

PadNext ==
    \/ \E b \in PadButtonsUsed : PadPress(0, b)
    \/ \E b \in PadButtonsUsed : PadRelease(0, b)
    \/ SetGamepadButton("cancel", 0)
    \/ SetGamepadButton("dash", 1)
    \/ Update(MaxPadFrames)

SpecPad == InitPad /\ [][PadNext]_vars

-----------------------------------------------------------------------------
(* the failsafe: Escape, Tab and one more key, held over veryLongPressTime frames;
   the keys change only during the first HoldEvents frames of a hold *)

FailsafeKeys == {"Escape", "Tab", "KeyZ"}

InitFailsafe == InitWith(<<>>)

FailsafeNext ==
    \/ \E code \in FailsafeKeys :
          /\ holdFrames < HoldEvents /\ keyEvents < MaxKeyEvents /\ code \notin keysDown
          /\ KeyDownEvent(code)
          /\ keyEvents' = keyEvents + 1
          /\ NoFrameHistory
          /\ UNCHANGED <<holdFrames, resetsInHold, inflight, returned>>
    \/ \E code \in FailsafeKeys :
          /\ holdFrames < HoldEvents /\ keyEvents < MaxKeyEvents
          /\ KeyUpEvent(code)
          /\ KeyUpHold(code)
          /\ keyEvents' = keyEvents + 1
          /\ NoFrameHistory
          /\ UNCHANGED <<inflight, returned>>
    \/ /\ keyEvents = 0
       /\ SetControlButton("menu", "Tab", "keyboardButton")
       /\ UNCHANGED <<lastOp, inflight, returned>>
    \/ \E st \in {Polled} : \E fr \in {Frame(st)} :
          LET maxTime == IF {"Escape", "Tab"} \subseteq keysDown THEN MaxHold ELSE PreHold
          IN  /\ UpdateState(st, fr, maxTime)
              /\ UpdateHold(fr, maxTime)
              /\ NoFrameHistory
              /\ UNCHANGED keyEvents

SpecFailsafe == InitFailsafe /\ [][FailsafeNext]_vars

-----------------------------------------------------------------------------
(* a rebind while other functions are held *)

(* the key or the active-gamepad button of function f is physically held *)
PhysicallyHeld(f) ==
    \/ inputs[f].keyboardButton \in keysDown
    \/ /\ activeGamepadIndex \in PadIndexes
       /\ gamepads[activeGamepadIndex].connected
       /\ inputs[f].gamepadButton \in NewState(gamepads[activeGamepadIndex])

(* SQInput.setKeyboardButton(control, keyCode); the history keeps the other
   functions that were held and pressed when it was called *)
RebindWhileHeld(control, keyCode) ==
    /\ control \in DOMAIN inputs
    /\ SetControlButton(control, keyCode, "keyboardButton")
    /\ lastOp' = "setKeyboardButton"
    /\ UNCHANGED returned
    /\ inflight' =
          {f \in DOMAIN inputs :
              /\ f # control
              /\ f # duplicateFunction(inputKeys, inputs, control, keyCode, "keyboardButton")
              /\ PhysicallyHeld(f)
              /\ isPressed(f)}

InflightKeys == {"KeyZ"}
InflightButtons == {1}

InitInflight == InitWith(<<>>)

InflightNext ==
    \/ \E code \in InflightKeys : KeyDown(code)
    \/ \E code \in InflightKeys : KeyUp(code)
    \/ \E b \in InflightButtons : PadPress(0, b)
    \/ \E b \in InflightButtons : PadRelease(0, b)
    \/ RebindWhileHeld("menu", "KeyA")
    \/ Update(MaxPadFrames)

SpecInflight == InitInflight /\ [][InflightNext]_vars

-----------------------------------------------------------------------------
(* calls whose result the application reads: setControlButton, getInputByIndex,
   the icon of a function *)

(* what SQInput.setControlButton hands back: the guard on an unknown control is
   a bare return, and the function ends without a return value *)
setControlButtonResult(tbl, control) ==
    IF control \notin DOMAIN tbl
    THEN [threw |-> FALSE, value |-> "undefined"]
    ELSE [threw |-> FALSE, value |-> "undefined"]

(* SQInput.getInputByIndex(index): this.inputs[Object.keys(this.inputs)[index]],
   by the id of the function; undefined past the last key *)
getInputByIndex(keys, index) ==
    IF index + 1 \in DOMAIN keys THEN keys[index + 1] ELSE "undefined"

(* SQInput.gamepadIndexToIconIndex *)
gamepadIndexToIconIndex ==
    (14 :> 0) @@ (12 :> 1) @@ (15 :> 2) @@ (13 :> 3) @@ (10 :> 4) @@ (11 :> 5)
        @@ (9 :> 6) @@ (8 :> 7) @@ (3 :> 8) @@ (1 :> 9) @@ (0 :> 10) @@ (2 :> 11)
        @@ (4 :> 12) @@ (5 :> 13) @@ (6 :> 14) @@ (7 :> 15)

(* SQInput.codeToIconIndex, for the key codes of the default table and of the rebinds *)
codeToIconIndex ==
    [ArrowLeft |-> 0, ArrowUp |-> 1, ArrowRight |-> 2, ArrowDown |-> 3, Enter |-> 1,
     Space |-> 2, Tab |-> 6, PageUp |-> 12, PageDown |-> 13, KeyA |-> 32, KeyB |-> 33,
     KeyQ |-> 48, KeyS |-> 50, KeyX |-> 55, KeyZ |-> 57, Escape |-> 95]

defaultButtonIcon == baseControlIconIndex + (buttonSetSize * maxButtonSets)

baseKeyboardIconIndex == baseControlIconIndex + (buttonSetSize * maxButtonSets)

(* a number, and NaN: the sum of a number and undefined *)
Icon(n) == [threw |-> FALSE, value |-> [isNaN |-> FALSE, index |-> n]]

IconNaN == [threw |-> FALSE, value |-> [isNaN |-> TRUE, index |-> 0]]

IconThrew == [threw |-> TRUE, value |-> [isNaN |-> TRUE, index |-> 0]]

(* keyboardButton.startsWith("Arrow") *)
startsWithArrow(code) == code \in {"ArrowLeft", "ArrowUp", "ArrowRight", "ArrowDown"}

(* SQInput.getKeyboardControlIconIndex(param) *)
getKeyboardControlIconIndex(tbl, param) ==
    LET keyboardButton == tbl[param].keyboardButton
    IN  IF keyboardButton = UndefinedKey THEN IconThrew
        ELSE IF keyboardButton \notin DOMAIN codeToIconIndex THEN IconNaN
        ELSE IF startsWithArrow(keyboardButton)
             THEN Icon(baseKeyboardIconIndex + codeToIconIndex[keyboardButton] - 64)
             ELSE Icon(baseKeyboardIconIndex + codeToIconIndex[keyboardButton])

(* getGamepadControlIconIndex without the offset of the button set *)
getGamepadControlIconIndexFirstSet(tbl, param, buttonSet) ==
    LET gamepadButton == tbl[param].gamepadButton
    IN  IF gamepadButton \notin DOMAIN gamepadIndexToIconIndex THEN IconNaN
        ELSE Icon(baseControlIconIndex + gamepadIndexToIconIndex[gamepadButton])

(* SQInput.getGamepadControlIconIndex(param) *)
getGamepadControlIconIndex(tbl, param, buttonSet) ==
    LET gamepadButton == tbl[param].gamepadButton
    IN  IF gamepadButton \notin DOMAIN gamepadIndexToIconIndex THEN IconNaN
        ELSE Icon(baseControlIconIndex + (buttonSetSize * buttonSet)
                    + gamepadIndexToIconIndex[gamepadButton])

(* Window_Base.obtainEscapeCodeIconIndex(code, param) for KBCTRL, JPCTRL and CTRL *)
obtainEscapeCodeIconIndex(code, param) ==
    IF param \notin DOMAIN inputs THEN Icon(-1)
    ELSE CASE code = "KBCTRL" -> getKeyboardControlIconIndex(inputs, param)
           [] code = "JPCTRL" -> getGamepadControlIconIndex(inputs, param, activeButtonSet)
           [] OTHER -> IF lastInputDevice = "keyboard"
                       THEN getKeyboardControlIconIndex(inputs, param)
                       ELSE getGamepadControlIconIndex(inputs, param, activeButtonSet)

(* a call that changes nothing but what it returns *)
Returns(op, result) ==
    /\ returned' = result
    /\ lastOp' = op
    /\ quiet' = NoQuiet
    /\ UNCHANGED <<tableVars, deviceVars, resetMapFlag, logicalVars, hardwareVars, savedConfig,
                   historyVars, captureVars, captureLog, inflight>>

(* the application calls SQInput.setControlButton(control, keyCode, type) *)
CallSetControlButton(control, keyCode, type) ==
    /\ SetControlButton(control, keyCode, type)
    /\ lastOp' = "setControlButton"
    /\ returned' = [call |-> "setControlButton", arg |-> control]
                      @@ setControlButtonResult(inputs, control)
    /\ UNCHANGED inflight

(* the application calls SQInput.getInputByIndex(index) *)
CallGetInputByIndex(index) ==
    Returns("getInputByIndex",
            [call |-> "getInputByIndex", arg |-> ToString(index), threw |-> FALSE,
             value |-> getInputByIndex(inputKeys, index)])

(* a text with \KBCTRL[param], \JPCTRL[param] or \CTRL[param] is drawn *)
CallObtainEscapeCodeIconIndex(code, param) ==
    Returns(code, [call |-> code, arg |-> param] @@ obtainEscapeCodeIconIndex(code, param))

CallControls == {"menu", "nosuch"}
CallCodes == {"KeyA", "F13"}
CallButtons == {5, 16}
IconCodes == {"KBCTRL", "JPCTRL", "CTRL"}

CallsNext ==
    \/ \E control \in CallControls : \E keyCode \in CallCodes :
          CallSetControlButton(control, keyCode, "keyboardButton")
    \/ \E control \in CallControls : \E buttonIndex \in CallButtons :
          CallSetControlButton(control, buttonIndex, "gamepadButton")
    \/ \E index \in 0 .. MaxOrdinal : CallGetInputByIndex(index)
    \/ \E code \in IconCodes : \E param \in CallControls \cup {"confirm"} :
          CallObtainEscapeCodeIconIndex(code, param)
    \/ NextButtonSet

SpecCalls == Init /\ [][CallsNext]_vars

(* rebinds with a capture pending, a button set and a preferred gamepad chosen *)
FrameControls == {"cancel", "jump", "nosuch"}
FrameCodes == {"KeyZ", "Tab"}
FrameButtons == {0, 9}

FrameNext ==
    \/ \E control \in FrameControls, keyCode \in FrameCodes :
          CallSetControlButton(control, keyCode, "keyboardButton")
    \/ \E control \in FrameControls, buttonIndex \in FrameButtons :
          CallSetControlButton(control, buttonIndex, "gamepadButton")
    \/ activeButtonSet = 0 /\ NextButtonSet
    \/ targetGamepadName = NullName /\ SetTargetGamepadIndex(1)
    \/ captureLog.arms = 0 /\ OnNextKeyboardInput
    \/ captureLog.arms = 1 /\ OnNextGamepadRelease

SpecFrame == Init /\ [][FrameNext]_vars

-----------------------------------------------------------------------------
(* the legacy names: a Controls parameter with an entry named "ok" *)

OkControl == [name |-> "ok", keyboardInput |-> "Enter", controllerInput |-> 5]

AliasParams == {<<>>, <<OkControl>>}
AliasKeys == {"Enter"}
AliasButtons == {0}

InitAlias == \E controls \in AliasParams : InitWith(controls)

AliasNext ==
    \/ \E code \in AliasKeys : KeyDown(code)
    \/ \E code \in AliasKeys : KeyUp(code)
    \/ \E b \in AliasButtons : PadPress(0, b)
    \/ \E b \in AliasButtons : PadRelease(0, b)
    \/ SetKeyboardButton("confirm", "KeyA")
    \/ ResetMap
    \/ Update(MaxPadFrames)

SpecAlias == InitAlias /\ [][AliasNext]_vars

-----------------------------------------------------------------------------
(* loading a config file that was not written by ConfigManager.save *)

(* ConfigManager.load of a file whose SQConfig section is sqConfig: applyData,
   with changeButtonSet, setTargetGamepadName, setControlMap and its
   rebuildButtonMapper; nothing of it when applyData throws *)
LoadConfig(sqConfig) ==
    /\ savedConfig' = [saved |-> TRUE, data |-> sqConfig]
    /\ LET r == applyConfig(sqConfig, inputs, activeButtonSet, targetGamepadName)
       IN  /\ activeButtonSet' = r.buttonSet
           /\ targetGamepadName' = r.gamepadName
           /\ inputs' = r.tbl
           /\ IF r.threw
              THEN /\ UNCHANGED <<keyMapper, gamepadMapper, logicalVars>>
                   /\ lastOp' = "applyDataThrew"
              ELSE /\ rebuildButtonMapper(inputKeys, r.tbl, currentState, previousState)
                   /\ lastOp' = "applyData"
    /\ UNCHANGED <<customControls, inputKeys, activeGamepadIndex, lastInputDevice, resetMapFlag,
                   hardwareVars, historyVars, captureVars, captureLog, inflight, returned>>
    /\ quiet' = NoQuiet

(* ConfigManager.load of a file whose SQConfig section holds buttonSet alone:
   changeButtonSet of the parsed and clamped value, setTargetGamepadName(null),
   setControlMap([]) with its rebuildButtonMapper *)
LoadButtonSet(value) ==
    /\ activeButtonSet' = applyButtonSet(value)
    /\ targetGamepadName' = NullName
    /\ rebuildButtonMapper(inputKeys, inputs, currentState, previousState)
    /\ lastOp' = "applyData"
    /\ UNCHANGED <<customControls, inputKeys, inputs, activeGamepadIndex, lastInputDevice,
                   resetMapFlag, hardwareVars, savedConfig, historyVars, captureVars,
                   captureLog, inflight, returned>>
    /\ quiet' = NoQuiet

(* the application calls SQInput.changeButtonSet(setIndex) *)
ChangeButtonSet(setIndex) ==
    /\ activeButtonSet' = changeButtonSet(setIndex)
    /\ lastOp' = "changeButtonSet"
    /\ UNCHANGED <<tableVars, targetGamepadName, activeGamepadIndex, lastInputDevice,
                   resetMapFlag, logicalVars, hardwareVars, savedConfig, historyVars,
                   captureVars, captureLog, inflight, returned>>
    /\ quiet' = NoQuiet

(* the button sets of config files: in range, out of range, as strings *)
ButtonSetValues ==
    {JsonNumber(n) : n \in {-1, 0, 3, 4, 7}} \cup {JsonString(str) : str \in {"", "2", "7", "abc"}}

ButtonSetNext ==
    \/ NextButtonSet
    \/ \E setIndex \in 0 .. (2 * numButtonSets) : ChangeButtonSet(setIndex)
    \/ \E value \in ButtonSetValues : LoadButtonSet(value)
    \/ \E gamepadIndex \in PadIndexes : SetTargetGamepadIndex(gamepadIndex)
    \/ SetKeyboardButton("menu", "KeyA")
    \/ Save
    \/ Load

SpecButtonSet == InitPad /\ [][ButtonSetNext]_vars

CompleteEntry == [keyboardButton |-> "KeyA", gamepadButton |-> 5]

MalformedEntries == {[gamepadButton |-> 5], [keyboardButton |-> "KeyA"]}

MalformedFunctions == {"menu", "nosuch"}

(* the control maps over some of MalformedFunctions, complete and incomplete entries *)
MalformedMaps ==
    UNION {[fs -> {CompleteEntry} \cup MalformedEntries] : fs \in SUBSET MalformedFunctions}

MalformedConfigs ==
    {UndefinedConfig, [buttonSet |-> 1], [gamepadName |-> "padB"]}
        \cup {[controlMap |-> m] : m \in MalformedMaps}
        \cup {[buttonSet |-> 1, gamepadName |-> "padB", controlMap |-> m] : m \in MalformedMaps}

InitMalformed == InitWith(<<>>)

MalformedNext ==
    \/ \E sqConfig \in MalformedConfigs : LoadConfig(sqConfig)
    \/ SetKeyboardButton("menu", "KeyB")
    \/ SetGamepadButton("ok", 5)
    \/ ResetMap
    \/ NextButtonSet

SpecMalformed == InitMalformed /\ [][MalformedNext]_vars

-----------------------------------------------------------------------------
(* gamepads connecting and disconnecting *)

Unplugged(p) == [connected |-> FALSE, id |-> PadId(p), buttons |-> {}, axes |-> [x |-> 0, y |-> 0]]

Plugged(p) == [connected |-> TRUE, id |-> PadId(p), buttons |-> {}, axes |-> [x |-> 0, y |-> 0]]

(* the listener registered by SQInput.initialize on document for gamepadconnected
   and gamepaddisconnected is SQInput.updateActiveGamepad, not bound: where the
   platform delivers the notification to it (invoked), it runs with the document
   as this and resolves document.activeGamepadIndex from document.targetGamepadName,
   which is undefined; SQInput.activeGamepadIndex is not written *)
GamepadNotification(pads, invoked, op) ==
    /\ gamepads' = pads
    /\ documentActiveGamepadIndex' =
          IF invoked THEN updateActiveGamepad(documentActiveGamepadIndex, NullName, pads)
          ELSE documentActiveGamepadIndex
    /\ lastOp' = op
    /\ quiet' = NoQuiet
    /\ UNCHANGED returned
    /\ inflight' = StillHeld(keysDown, pads)
    /\ UNCHANGED <<tableVars, deviceVars, resetMapFlag, logicalVars, keysDown, savedConfig,
                   keyboardInputCallback, gamepadInputCallback, captureLog,
                   freshKeys, lastPolled, holdFrames, resetsInHold, frameLog, keyEvents>>

GamepadDisconnected(p) ==
    /\ gamepads[p].connected
    /\ \E invoked \in BOOLEAN :
          GamepadNotification([gamepads EXCEPT ![p] = Unplugged(p)], invoked, "gamepaddisconnected")

GamepadConnected(p) ==
    /\ ~gamepads[p].connected
    /\ \E invoked \in BOOLEAN :
          GamepadNotification([gamepads EXCEPT ![p] = Plugged(p)], invoked, "gamepadconnected")

ConnectButtons == {0}

InitConnect == InitWith(<<>>)

ConnectNext ==
    \/ \E q \in PadIndexes : GamepadDisconnected(q)
    \/ \E q \in PadIndexes : GamepadConnected(q)
    \/ \E q \in PadIndexes : \E b \in ConnectButtons : PadPress(q, b)
    \/ \E q \in PadIndexes : \E b \in ConnectButtons : PadRelease(q, b)
    \/ \E q \in PadIndexes : SetTargetGamepadIndex(q)
    \/ Update(MaxPadFrames)

SpecConnect == InitConnect /\ [][ConnectNext]_vars

-----------------------------------------------------------------------------
(* two connected gamepads, a preferred gamepad, a capture and the keyboard *)

TwoPadButtons == {0}
TwoPadKeys == {"KeyX"}

InitTwoPads == InitWith(<<>>)

(* the history of a hardware event: the events are counted, the keys newly down kept *)
TwoPadEvent(op, fresh) ==
    /\ keyEvents < MaxTwoPadEvents
    /\ keyEvents' = keyEvents + 1
    /\ freshKeys' = fresh
    /\ lastOp' = op
    /\ UNCHANGED <<holdFrames, resetsInHold, frameLog, lastPolled, quiet, inflight, returned>>

TwoPadsNext ==
    \/ \E q \in PadIndexes : \E b \in TwoPadButtons :
          PadPressEvent(q, b) /\ TwoPadEvent("padPress", freshKeys)
    \/ \E q \in PadIndexes : \E b \in TwoPadButtons :
          PadReleaseEvent(q, b) /\ TwoPadEvent("padRelease", freshKeys)
    \/ \E x \in {0, 10} : PadStickEvent(1, x, 0) /\ TwoPadEvent("padStick", freshKeys)
    \/ SetTargetGamepadIndex(1)
    \/ captureLog.arms = 0 /\ OnNextGamepadPress
    \/ \E code \in TwoPadKeys :
          KeyDownEvent(code) /\ TwoPadEvent("keydown", freshKeys \cup {code})
    \/ \E code \in TwoPadKeys :
          KeyUpEvent(code) /\ TwoPadEvent("keyup", freshKeys \ {code})
    \/ Update(MaxPadFrames)

SpecTwoPads == InitTwoPads /\ [][TwoPadsNext]_vars

(* two gamepads with the preferred gamepad changed back and forth *)
SwitchNext ==
    \/ \E q \in PadIndexes : \E b \in TwoPadButtons :
          PadPressEvent(q, b) /\ TwoPadEvent("padPress", freshKeys)
    \/ \E q \in PadIndexes : \E b \in TwoPadButtons :
          PadReleaseEvent(q, b) /\ TwoPadEvent("padRelease", freshKeys)
    \/ \E q \in PadIndexes : SetTargetGamepadIndex(q)
    \/ \E code \in TwoPadKeys :
          KeyDownEvent(code) /\ TwoPadEvent("keydown", freshKeys \cup {code})
    \/ \E code \in TwoPadKeys :
          KeyUpEvent(code) /\ TwoPadEvent("keyup", freshKeys \ {code})
    \/ Update(MaxPadFrames)

SpecSwitch == InitTwoPads /\ [][SwitchNext]_vars

(* the d-pad and the left stick of gamepad 0: the stick at rest, at the
   threshold and beyond it *)
StickButtons == {12, 13, 15}
StickDeflections == {-6, -5, 0, 5, 6}

StickNext ==
    \/ \E b \in StickButtons : PadPressEvent(0, b) /\ TwoPadEvent("padPress", freshKeys)
    \/ \E b \in StickButtons : PadReleaseEvent(0, b) /\ TwoPadEvent("padRelease", freshKeys)
    \/ \E y \in StickDeflections :
          PadStickEvent(0, gamepads[0].axes.x, y) /\ TwoPadEvent("padStick", freshKeys)
    \/ \E x \in StickDeflections :
          PadStickEvent(0, x, gamepads[0].axes.y) /\ TwoPadEvent("padStick", freshKeys)
    \/ Update(MaxPadFrames)

SpecStick == InitTwoPads /\ [][StickNext]_vars

-----------------------------------------------------------------------------
(* captures armed and cancelled by the application, keys, the active gamepad *)

CaptureKeys == {"KeyZ"}
CaptureButtons == {0}

InitCapture == InitWith(<<>>)

(* the events and the update with the capture history alone; keyEvents counts
   the key and button events *)
CaptureHistoryOnly(op) ==
    /\ lastOp' = op
    /\ UNCHANGED <<holdFrames, resetsInHold, frameLog, freshKeys, lastPolled, quiet, inflight, returned>>

CaptureEvent(op) ==
    /\ keyEvents < MaxCaptureEvents
    /\ keyEvents' = keyEvents + 1
    /\ CaptureHistoryOnly(op)

CaptureUpdate ==
    \E st \in {Polled} : \E fr \in {Frame(st)} :
        /\ UpdateState(st, fr, MaxCaptureFrames)
        /\ lastOp' = "update"
        /\ UNCHANGED <<holdFrames, resetsInHold, frameLog, freshKeys, lastPolled, quiet, keyEvents>>

CaptureNext ==
    \/ OnNextKeyboardInput
    \/ OnNextGamepadPress
    \/ OnNextGamepadRelease
    \/ CancelOnNextKeyboardInput
    \/ CancelOnNextGamepadInput
    \/ \E code \in CaptureKeys : KeyDownEvent(code) /\ CaptureEvent("keydown")
    \/ \E code \in CaptureKeys : KeyUpEvent(code) /\ CaptureEvent("keyup")
    \/ \E b \in CaptureButtons : PadPressEvent(0, b) /\ CaptureEvent("padPress")
    \/ \E b \in CaptureButtons : PadReleaseEvent(0, b) /\ CaptureEvent("padRelease")
    \/ CaptureUpdate

SpecCapture == InitCapture /\ [][CaptureNext]_vars

(* the same with rebinds, resetMap and button-set changes while a capture is pending *)
PendingNext ==
    \/ OnNextKeyboardInput
    \/ OnNextGamepadPress
    \/ \E code \in CaptureKeys : KeyDownEvent(code) /\ CaptureEvent("keydown")
    \/ \E code \in CaptureKeys : KeyUpEvent(code) /\ CaptureEvent("keyup")
    \/ \E b \in CaptureButtons : PadPressEvent(0, b) /\ CaptureEvent("padPress")
    \/ \E b \in CaptureButtons : PadReleaseEvent(0, b) /\ CaptureEvent("padRelease")
    \/ SetKeyboardButton("menu", "KeyA")
    \/ ResetMap
    \/ activeButtonSet = 0 /\ NextButtonSet
    \/ CaptureUpdate

SpecPending == InitCapture /\ [][PendingNext]_vars

(* the keyboard capture alone, with two keys *)

KeyboardCaptureKeys == {"KeyZ", "KeyX"}

KeyboardCaptureNext ==
    \/ OnNextKeyboardInput
    \/ CancelOnNextKeyboardInput
    \/ \E code \in KeyboardCaptureKeys : KeyDownEvent(code) /\ CaptureEvent("keydown")
    \/ \E code \in KeyboardCaptureKeys : KeyUpEvent(code) /\ CaptureEvent("keyup")
    \/ CaptureUpdate

SpecKeyboardCapture == InitCapture /\ [][KeyboardCaptureNext]_vars

(* the remap scene: startRemap on a row, cancelRemap, keys and buttons *)

RemapTargets == {"menu"}
RemapKeys == {"KeyA", "Escape"}
RemapButtons == {0, 2}

RemapNext ==
    \/ \E target \in RemapTargets : StartRemapGamepad(target)
    \/ \E target \in RemapTargets : StartRemapKeyboard(target)
    \/ CancelRemap
    \/ \E code \in RemapKeys : KeyDownEvent(code) /\ CaptureEvent("keydown")
    \/ \E code \in RemapKeys : KeyUpEvent(code) /\ CaptureEvent("keyup")
    \/ \E b \in RemapButtons : PadPressEvent(0, b) /\ CaptureEvent("padPress")
    \/ \E b \in RemapButtons : PadReleaseEvent(0, b) /\ CaptureEvent("padRelease")
    \/ CaptureUpdate

SpecRemap == InitCapture /\ [][RemapNext]_vars

(* handlers that arm the next capture while they run: the press closure of
   startRemap, and a keyboard handler that calls onNextKeyboardInput *)

(* SQInput.onNextKeyboardInput(r), r a handler that calls
   SQInput.onNextKeyboardInput(h) when invoked; nextKeyboardInputHandler sets
   _keyboardInputCallback to null after r has returned (keyboardCallbackAfter) *)
OnNextKeyboardInputRearming ==
    /\ captureLog.arms < MaxArms
    /\ keyboardInputCallback' =
          [kind |-> "rearmKeyboard", id |-> captureLog.arms + 1, target |-> ""]
    /\ captureLog' = [captureLog EXCEPT !.arms = @ + 1,
                                        !.cancelled = @ \cup Overwritten({"keyboard"}, "arm"),
                                        !.kbArmed = captureLog.arms + 1,
                                        !.kbFirst = "", !.kbLast = "", !.kbDowns = 0]
    /\ lastOp' = "onNextKeyboardInput"
    /\ UNCHANGED gamepadInputCallback
    /\ CaptureFrame

RearmNext ==
    \/ \E target \in RemapTargets : StartRemapGamepad(target)
    \/ OnNextKeyboardInputRearming
    \/ \E code \in RemapKeys : KeyDownEvent(code) /\ CaptureEvent("keydown")
    \/ \E code \in RemapKeys : KeyUpEvent(code) /\ CaptureEvent("keyup")
    \/ \E b \in RemapButtons : PadPressEvent(0, b) /\ CaptureEvent("padPress")
    \/ \E b \in RemapButtons : PadReleaseEvent(0, b) /\ CaptureEvent("padRelease")
    \/ CaptureUpdate

SpecRearm == InitCapture /\ [][RearmNext]_vars

-----------------------------------------------------------------------------
(* the options of the remap scene, each followed by ConfigManager.save *)

(* Scene_SQControls.confirmResetControls on the first row: resetMap, save *)
ConfirmResetControls ==
    /\ inputs' = resetMap(inputs)
    /\ rebuildButtonMapper(inputKeys, resetMap(inputs), currentState, previousState)
    /\ savedConfig' = SavedAfter(resetMap(inputs))
    /\ lastOp' = "confirmResetControls"
    /\ UNCHANGED <<customControls, inputKeys, deviceVars, resetMapFlag, hardwareVars,
                   historyVars, captureVars, captureLog, inflight, returned>>
    /\ quiet' = NoQuiet

(* Scene_SQControls.changeOption on row 1: nextButtonSet, save *)
ChangeOptionButtonSet ==
    /\ activeButtonSet' = changeButtonSet(add(activeButtonSet, 1))
    /\ savedConfig' =
          [saved |-> TRUE,
           data |-> JsonConfig(makeData(inputs, changeButtonSet(add(activeButtonSet, 1)),
                                        targetGamepadName))]
    /\ lastOp' = "changeOption"
    /\ UNCHANGED <<tableVars, targetGamepadName, activeGamepadIndex, lastInputDevice,
                   resetMapFlag, logicalVars, hardwareVars, historyVars,
                   captureVars, captureLog, inflight, returned>>
    /\ quiet' = NoQuiet

(* Scene_SQControls.confirmGamepadSelection on the row of gamepadIndex:
   setTargetGamepadIndex, save *)
ConfirmGamepadSelection(gamepadIndex) ==
    LET name == IF gamepadIndex \in DOMAIN gamepads /\ gamepads[gamepadIndex].connected
                THEN gamepads[gamepadIndex].id
                ELSE targetGamepadName
    IN  /\ targetGamepadName' = name
        /\ savedConfig' = [saved |-> TRUE,
                           data |-> JsonConfig(makeData(inputs, activeButtonSet, name))]
        /\ lastOp' = "confirmGamepadSelection"
        /\ UNCHANGED <<tableVars, activeButtonSet, activeGamepadIndex, lastInputDevice,
                       resetMapFlag, logicalVars, hardwareVars, historyVars,
                       captureVars, captureLog, inflight, returned>>
        /\ quiet' = NoQuiet

(* the scene used before an Escape+Tab hold: a keyboard remap of menu, the
   three options, then the keys and frames of the failsafe specification *)
PersistNext ==
    \/ keyEvents = 0 /\ StartRemapKeyboard("menu")
    \/ keyEvents = 0 /\ ConfirmResetControls
    \/ keyEvents = 0 /\ activeButtonSet = 0 /\ ChangeOptionButtonSet
    \/ keyEvents = 0 /\ targetGamepadName = NullName /\ ConfirmGamepadSelection(1)
    \/ \E code \in FailsafeKeys :
          /\ holdFrames < HoldEvents /\ keyEvents < MaxKeyEvents /\ code \notin keysDown
          /\ KeyDownEvent(code)
          /\ keyEvents' = keyEvents + 1
          /\ lastOp' = "keydown"
          /\ UNCHANGED <<frameLog, freshKeys, lastPolled, quiet>>
          /\ UNCHANGED <<holdFrames, resetsInHold, inflight, returned>>
    \/ \E code \in FailsafeKeys :
          /\ holdFrames < HoldEvents /\ keyEvents < MaxKeyEvents
          /\ KeyUpEvent(code)
          /\ KeyUpHold(code)
          /\ keyEvents' = keyEvents + 1
          /\ lastOp' = "keyup"
          /\ UNCHANGED <<frameLog, freshKeys, lastPolled, quiet>>
          /\ UNCHANGED <<inflight, returned>>
    \/ \E st \in {Polled} : \E fr \in {Frame(st)} :
          LET maxTime == IF {"Escape", "Tab"} \subseteq keysDown THEN MaxHold ELSE PreHold
          IN  /\ UpdateState(st, fr, maxTime)
              /\ UpdateHold(fr, maxTime)
              /\ lastOp' = "update"
              /\ UNCHANGED <<frameLog, freshKeys, lastPolled, quiet>>
              /\ UNCHANGED keyEvents

SpecPersist == InitFailsafe /\ [][PersistNext]_vars

-----------------------------------------------------------------------------
(* the failsafe under other input: a game whose plugin parameters may add a
   function named "tab" on the T key, the keys of a hold with the auto-repeat
   of Tab, a rebind of menu, and frames up to a second span of
   veryLongPressTime; the keys change only while Input._pressedTime is small *)

TabControl == [name |-> "tab", keyboardInput |-> "KeyT", controllerInput |-> 4]

AccidentControls == {<<>>, <<TabControl>>}

AccidentKeys == {"Escape", "Tab", "KeyT"}

InitAccident == \E controls \in AccidentControls : InitWith(controls)

(* the frames at which keys change: the start of a press, and of a hold, or the
   frames that follow a reset *)
KeysMayChange ==
    /\ pressedTime < HoldEvents
    /\ keyEvents < MaxKeyEvents
    /\ \/ holdFrames < HoldEvents
       \/ resetsInHold > 0 /\ holdFrames <= veryLongPressTime + 1 + HoldEvents

AccidentNext ==
    \/ \E code \in AccidentKeys :
          /\ KeysMayChange
          /\ code \notin keysDown \/ code = "Tab"
          /\ KeyDownEvent(code)
          /\ keyEvents' = keyEvents + 1
          /\ NoFrameHistory
          /\ UNCHANGED <<holdFrames, resetsInHold, inflight, returned>>
    \/ \E code \in AccidentKeys :
          /\ KeysMayChange
          /\ KeyUpEvent(code)
          /\ KeyUpHold(code)
          /\ keyEvents' = keyEvents + 1
          /\ NoFrameHistory
          /\ UNCHANGED <<inflight, returned>>
    \/ /\ KeysMayChange /\ keyEvents < HoldEvents
       /\ SetControlButton("menu", "Tab", "keyboardButton")
       /\ UNCHANGED <<lastOp, inflight, returned>>
    \/ \E st \in {Polled} : \E fr \in {Frame(st)} :
          /\ UpdateState(st, fr, MaxHold)
          /\ UpdateHold(fr, 2 * MaxHold)
          /\ NoFrameHistory
          /\ UNCHANGED keyEvents

SpecAccident == InitAccident /\ [][AccidentNext]_vars

-----------------------------------------------------------------------------
(* the binding table: claims C1, C2, C3, C9, C10 *)

Functions == DOMAIN inputs

(* the table SQInput.initialize built at startup *)
StartupTable == initialize(customControls).tbl

(* C1: after any sequence of setKeyboardButton / setGamepadButton calls from the
   startup table, no two distinct functions hold the same keyboard binding and
   no two distinct functions hold the same gamepad binding. *)
C1_Injective ==
    \A a, b \in Functions :
        a # b => /\ inputs[a].keyboardButton # inputs[b].keyboardButton
                 /\ inputs[a].gamepadButton # inputs[b].gamepadButton

(* a rebind of cancel onto confirm's button 0 has swapped confirm onto button 1,
   and a custom function took Tab *)
C1_Witness ==
    /\ lastOp = "setGamepadButton"
    /\ inputs["cancel"].gamepadButton = 0
    /\ inputs["confirm"].gamepadButton = 1
    /\ "jump" \in Functions
    /\ inputs["jump"].keyboardButton = "Tab"

(* C2: in every reachable state, after any rebind, resetMap and config load,
   every function of the table has a defined keyboard binding and a defined
   gamepad binding. *)
C2_NeverUnbound ==
    \A f \in Functions :
        /\ inputs[f].keyboardButton # UndefinedKey
        /\ inputs[f].gamepadButton # UndefinedButton

(* C3: after any rebind or resetMap the key lookup still maps Tab to
   static_tab and Escape to static_escape. *)
C3_StaticKeysMapped ==
    /\ "Tab" \in DOMAIN keyMapper /\ Contains(keyMapper["Tab"], "static_tab")
    /\ "Escape" \in DOMAIN keyMapper /\ Contains(keyMapper["Escape"], "static_escape")

(* C9: in every reachable state, saving and immediately loading the
   configuration, in memory (applyData(makeData())) or through the saved file,
   leaves every function's keyboard and gamepad binding, activeButtonSet and
   targetGamepadName what they were. *)
SameAfter(r) ==
    /\ DOMAIN r.tbl = Functions
    /\ \A f \in Functions :
          /\ r.tbl[f].keyboardButton = inputs[f].keyboardButton
          /\ r.tbl[f].gamepadButton = inputs[f].gamepadButton
    /\ r.buttonSet = activeButtonSet
    /\ r.gamepadName = targetGamepadName

C9_RoundTrip ==
    LET data == makeData(inputs, activeButtonSet, targetGamepadName)
    IN  /\ SameAfter(applyData(data, inputs))
        /\ SameAfter(applyData(JsonConfig(data), inputs))

(* a load of the configuration just saved, with a rebound custom function, a
   button set other than 0 and a preferred gamepad *)
C9_Witness ==
    /\ lastOp = "load"
    /\ savedConfig.data = JsonConfig(makeData(inputs, activeButtonSet, targetGamepadName))
    /\ activeButtonSet = numButtonSets - 1
    /\ targetGamepadName # NullName
    /\ "jump" \in Functions
    /\ inputs["jump"].keyboardButton = "Tab"
    /\ inputs["jump"].gamepadButton = 1

(* C10: resetMap sets every function's two bindings back to the bindings the
   function had at startup. *)
C10_ResetRestoresStartup ==
    lastOp = "resetMap" =>
        \A f \in Functions :
            /\ inputs[f].keyboardButton = StartupTable[f].keyboardButton
            /\ inputs[f].gamepadButton = StartupTable[f].gamepadButton

-----------------------------------------------------------------------------
(* the logical state: claims C4, C5, C6, C7, C8 *)

(* the names a caller may use for function f: its id in SQInput.inputs and its name *)
Pressed(f) == isPressed(f) \/ isPressed(inputs[f].name)
Triggered(f) == isTriggered(f) \/ isTriggered(inputs[f].name)
Repeated(f) == isRepeated(f) \/ isRepeated(inputs[f].name)

(* the gamepad read by the poll, and the buttons it shows pressed *)
ActiveButtons ==
    IF activeGamepadIndex \in PadIndexes /\ gamepads[activeGamepadIndex].connected
    THEN NewState(gamepads[activeGamepadIndex])
    ELSE {}

(* C4: whenever Escape and Tab have both been physically held for more than
   veryLongPressTime consecutive updates, the failsafe has called resetMap during
   that hold, whatever the bindings and the other key events. *)
C4_FailsafeFires == holdFrames > veryLongPressTime => resetsInHold >= 1

(* C5: after every update, isTriggered(f) is true exactly when f went from not
   held to held on that frame. *)
C5_TriggeredOnEdgeOnly ==
    (lastOp = "update" /\ ~queryThrows) =>
        \A keyName \in (DOMAIN currentState.val) \cup Functions :
            isTriggered(keyName) <=> keyName \in frameLog.edges

(* the frames at which isRepeated pulses for an input pressed at frame 0 *)
RepeatFrame(k) == k = 0 \/ (k >= keyRepeatWait /\ (k - keyRepeatWait) % keyRepeatInterval = 0)

(* the functions bound to the input pressed last *)
BoundToQuiet(f) ==
    \/ quiet.kind = "key" /\ inputs[f].keyboardButton = quiet.input
    \/ /\ quiet.kind = "button"
       /\ activeGamepadIndex \in PadIndexes
       /\ quiet.input = PadInput(activeGamepadIndex, inputs[f].gamepadButton)

(* C6: an input pressed at frame 0 and held with no other input activity makes
   isRepeated of its function true at frame 0, false on frames 1 to 23, and then
   true exactly on frames 24, 30, 36, ... *)
C6_RepeatTiming ==
    (lastOp = "update" /\ ~queryThrows /\ quiet.kind # "none"
        /\ quiet.frames >= 1 /\ quiet.frames <= MaxFrames) =>
        \A f \in Functions :
            BoundToQuiet(f) => (Repeated(f) <=> RepeatFrame(quiet.frames - 1))

(* the table of a game with no Controls parameter *)
DefaultTable == SaveDefaults(BuiltinInputs)

(* C7: from the default table, rebinding A's gamepad slot to B's button binds B
   to A's previous button; after it, a frame on which that button goes from
   released to pressed on the active gamepad triggers B, and a press of the new
   button triggers A. *)
C7_SwapTriggers ==
    \A a, b \in DOMAIN DefaultTable :
        a # b =>
            LET swapped == setControlButton(BuiltinKeys, DefaultTable, a,
                                            DefaultTable[b].gamepadButton, "gamepadButton")
            IN  /\ swapped[b].gamepadButton = DefaultTable[a].gamepadButton
                /\ swapped[a].gamepadButton = DefaultTable[b].gamepadButton
                /\ (inputs = swapped /\ lastOp = "update" /\ ~queryThrows) =>
                      /\ DefaultTable[a].gamepadButton \in frameLog.buttonEdges => Triggered(b)
                      /\ DefaultTable[b].gamepadButton \in frameLog.buttonEdges => Triggered(a)

(* C8: after every update, a function whose bound key or bound button of the
   active gamepad is physically held is reported pressed. *)
C8_BoundInputPressed ==
    lastOp = "update" =>
        \A f \in Functions :
            (inputs[f].keyboardButton \in keysDown \/ inputs[f].gamepadButton \in ActiveButtons)
                => Pressed(f)

-----------------------------------------------------------------------------
(* the captures: claims C11, C12, C13, C14 *)

(* the keyboard handler invocations made for arm id or a later arm *)
KeyboardCallsSince(id) ==
    SelectSeq(captureLog.calls, LAMBDA c : c.type = "keydown" /\ c.id >= id)

(* C11: after onNextKeyboardInput(h), h is invoked exactly once, with the first
   keydown event; no handler is invoked on a later keydown, and the keydown still
   sets the names the key lookup gives for its key. *)
C11_KeyboardOneShot ==
    captureLog.kbArmed # 0 =>
        /\ captureLog.kbDowns = 0 => KeyboardCallsSince(captureLog.kbArmed) = <<>>
        /\ captureLog.kbDowns >= 1 =>
              /\ Len(KeyboardCallsSince(captureLog.kbArmed)) = 1
              /\ Len(CallsOf(captureLog.kbArmed)) = 1
              /\ CallsOf(captureLog.kbArmed)[1].code = captureLog.kbFirst
        /\ lastOp = "keydown" =>
              \A name \in Range(ButtonNames(captureLog.kbLast)) : Truthy(currentState.val, name)

(* a second keydown has followed the keydown that fired the handler *)
C11_Witness ==
    /\ captureLog.kbArmed # 0
    /\ captureLog.kbDowns = 2
    /\ lastOp = "keydown"
    /\ captureLog.kbLast # captureLog.kbFirst
    /\ Len(CallsOf(captureLog.kbArmed)) = 1
    /\ Truthy(currentState.val, "cancel")

(* C12: in the gamepad remap flow the button handed to remapGamepadInputHandler,
   and bound to the target function, is the button whose press fired the first
   stage. *)
C12_BindsPressedButton ==
    captureLog.bound # UndefinedButton => captureLog.bound = captureLog.pressed

(* C13: a cancel leaves its track idle and invokes no handler, and the handler
   that was pending when it was cancelled is never invoked afterwards. *)
C13_CancelIsFinal ==
    /\ \A c \in captureLog.cancelled : c.by = "cancel" => CallsOf(c.id) = <<>>
    /\ lastOp = "cancelOnNextKeyboardInput" => ~IsFunction(keyboardInputCallback)
    /\ lastOp = "cancelOnNextGamepadInput" =>
          ~IsFunction(gamepadInputCallback.cb) /\ gamepadInputCallback.type = "null"

(* a capture armed for a release was cancelled and a release has since been
   handed to nextGamepadInputHandler; a cancelled keyboard capture has seen a keydown *)
C13_Witness ==
    /\ \E c \in captureLog.cancelled : c.by = "cancel" /\ c.track = "release"
    /\ \E c \in captureLog.cancelled : c.by = "cancel" /\ c.track = "keyboard"
    /\ lastOp = "update"
    /\ \E n \in 1 .. Len(captureLog.seen) : captureLog.seen[n].type = "release"
    /\ "KeyZ" \in keysDown
    /\ captureLog.calls = <<>>

(* C14: at most one capture is pending across the keyboard and gamepad tracks
   together. *)
C14_SinglePending == Cardinality(Pending) <= 1

-----------------------------------------------------------------------------
(* rebinds and devices: claims C15, C16, C17, C18 *)

(* C15: a function whose bound input is held before and throughout a rebind of
   another function is still pressed after every following update, and is not
   triggered again. *)
C15_RebindKeepsPresses ==
    lastOp = "update" => \A f \in inflight : isPressed(f) /\ ~isTriggered(f)

(* the active gamepad shows what the last poll stored for it, or is not polled *)
ActivePadQuiet ==
    /\ activeGamepadIndex \in PadIndexes
    /\ \/ ~gamepads[activeGamepadIndex].connected
       \/ /\ activeGamepadIndex \in DOMAIN gamepadStates
          /\ gamepadStates[activeGamepadIndex] = NewState(gamepads[activeGamepadIndex])

(* C16: an update in which the active gamepad has not changed leaves every
   function's logical state, the capture handlers, the active index and
   lastInputDevice as they were, whatever the other connected gamepads show. *)
C16_OnlyActivePadRead ==
    [][(lastOp' = "update" /\ ActivePadQuiet /\ ~frameLog'.reset)
          => /\ currentState' = currentState
             /\ lastInputDevice' = lastInputDevice
             /\ activeGamepadIndex' = activeGamepadIndex
             /\ gamepadInputCallback' = gamepadInputCallback
             /\ captureLog'.calls = captureLog.calls]_vars

(* an update polled a changed, non-active gamepad while a capture was armed and
   the keyboard was the last device *)
C16_Witness ==
    /\ lastOp = "update"
    /\ frameLog.otherEdges # {}
    /\ frameLog.buttonEdges = {}
    /\ activeGamepadIndex = 0
    /\ 0 \in DOMAIN gamepadStates
    /\ NewState(gamepads[1]) # {}
    /\ IsFunction(gamepadInputCallback.cb)
    /\ lastInputDevice = "keyboard"

(* C17: on the update in which a button of the (already resolved) active gamepad
   has changed since the previous poll, lastInputDevice becomes "gamepad". *)
C17_GamepadBecomesLastDevice ==
    [][(/\ lastOp' = "update"
        /\ activeGamepadIndex \in PadIndexes
        /\ gamepads[activeGamepadIndex].connected
        /\ NewState(gamepads[activeGamepadIndex]) # lastPolled[activeGamepadIndex]
        /\ freshKeys = {})
          => lastInputDevice' = "gamepad"]_vars

ConnectedPads == {p \in PadIndexes : gamepads[p].connected}

PreferredPads == {p \in ConnectedPads : gamepads[p].id = targetGamepadName}

(* C18: after a connect or disconnect notification, an active index that was
   resolved refers to a connected gamepad whenever one is connected: the
   preferred one if it is connected. *)
C18_ActiveIndexReResolved ==
    (/\ lastOp \in {"gamepadconnected", "gamepaddisconnected"}
     /\ activeGamepadIndex # NullIndex
     /\ ConnectedPads # {})
        => /\ activeGamepadIndex \in ConnectedPads
           /\ PreferredPads # {} => activeGamepadIndex \in PreferredPads

-----------------------------------------------------------------------------
(* the query boundary and the config file: claims C19, C20 *)

UnknownNames == {"nosuch"}

(* C19: immediately after a rebind or resetMap, before the next update, the
   queries on a name that is not in the binding table do not fail and return
   false. *)
C19_UnknownNamesTolerated ==
    lastOp \in {"setGamepadButton", "setKeyboardButton", "resetMap"} =>
        /\ ~queryThrows
        /\ \A n \in UnknownNames : ~isPressed(n) /\ ~isTriggered(n) /\ ~isRepeated(n)

(* the control map of the config file last loaded *)
LoadedMap ==
    IF "controlMap" \in DOMAIN savedConfig.data
    THEN savedConfig.data.controlMap
    ELSE [x \in {} |-> <<>>]

(* C20: after a malformed config was applied, every function whose entry gives
   both bindings has them, and every function whose entry lacks a binding has
   its default bindings. *)
C20_MalformedRecovered ==
    lastOp = "applyData" =>
        \A f \in DOMAIN inputs \cap DOMAIN LoadedMap :
            IF DOMAIN LoadedMap[f] = {"keyboardButton", "gamepadButton"}
            THEN /\ inputs[f].keyboardButton = LoadedMap[f].keyboardButton
                 /\ inputs[f].gamepadButton = LoadedMap[f].gamepadButton
            ELSE /\ inputs[f].keyboardButton = inputs[f].defaultKeyboardButton
                 /\ inputs[f].gamepadButton = inputs[f].defaultGamepButton

-----------------------------------------------------------------------------
(* the table boundary and the icons: claims C21, C22, C24 *)

(* C21: a call of setControlButton with a control that is not in the table
   reports an UnknownFunction error to its caller. *)
C21_UnknownFunctionSurfaced ==
    (returned.call = "setControlButton" /\ returned.arg \notin DOMAIN inputs)
        => returned.threw \/ returned.value = "UnknownFunction"

(* the index handed to the last getInputByIndex call *)
ReturnedIndex == CHOOSE i \in 0 .. (MaxOrdinal + 1) : ToString(i) = returned.arg

(* C22: getInputByIndex(i) returns the i-th function in insertion order for
   0 <= i < count, and fails with IndexOutOfRange for i at or beyond the count. *)
C22_OrdinalLookup ==
    returned.call = "getInputByIndex" =>
        IF ReturnedIndex < Len(inputKeys)
        THEN ~returned.threw /\ returned.value = inputKeys[ReturnedIndex + 1]
        ELSE returned.threw \/ returned.value = "IndexOutOfRange"

(* the last icon call resolved the keyboard icon of its function *)
KeyboardIconAsked ==
    \/ returned.call = "KBCTRL"
    \/ returned.call = "CTRL" /\ lastInputDevice = "keyboard"

(* the binding the last icon call looked up is in neither icon table *)
UnrecognizedBinding ==
    IF KeyboardIconAsked
    THEN inputs[returned.arg].keyboardButton \notin DOMAIN codeToIconIndex
    ELSE inputs[returned.arg].gamepadButton \notin PadButtons

(* C24: the icon of a function whose keyboard binding is not in the code-to-icon
   table, or whose gamepad binding is outside 0..15, is defaultButtonIcon. *)
C24_IconFallback ==
    (returned.call \in IconCodes /\ returned.arg \in DOMAIN inputs /\ UnrecognizedBinding)
        => /\ ~returned.threw
           /\ ~returned.value.isNaN
           /\ returned.value.index = defaultButtonIcon

-----------------------------------------------------------------------------
(* aliases, captures and holds: claims C23, C25 .. C30 *)

(* C23: on every frame the legacy name "ok" and the function "confirm" report
   the same state, whatever the Controls parameter. *)
C23_OkIsConfirm ==
    lastOp = "update" =>
        /\ isPressed("ok") = isPressed("confirm")
        /\ isTriggered("ok") = isTriggered("confirm")

(* the poll of this step handed a transition of the edge the gamepad capture expects *)
MatchingTransition ==
    \E n \in 1 .. Len(captureLog'.seen) : captureLog'.seen[n].type = gamepadInputCallback.type

(* C25: an armed capture keeps its handler and expected edge across every step
   that is not a new arm or a cancel on its track or an input that matches it. *)
C25_PendingCaptureKept ==
    [][/\ (/\ IsFunction(gamepadInputCallback.cb)
           /\ lastOp' \notin {"onNextGamepad", "cancelOnNextGamepadInput"}
           /\ ~(lastOp' = "update" /\ MatchingTransition))
              => gamepadInputCallback' = gamepadInputCallback
       /\ (/\ IsFunction(keyboardInputCallback)
           /\ lastOp' \notin {"onNextKeyboardInput", "cancelOnNextKeyboardInput", "keydown"})
              => keyboardInputCallback' = keyboardInputCallback]_vars

(* a capture armed for a press is still pending after a poll that handed a release *)
C25_Witness ==
    /\ lastOp = "update"
    /\ IsFunction(gamepadInputCallback.cb)
    /\ gamepadInputCallback.type = "press"
    /\ captureLog.seen # <<>>
    /\ captureLog.seen[1].type = "release"
    /\ IsFunction(keyboardInputCallback)

(* the poll of this frame had no capture been armed *)
PolledUnarmed ==
    PollGamepads([PollStart EXCEPT !.kcb = NoCallback, !.gcb = NoGamepadCallback], 0)

(* C26: arming and cancelling change neither the binding table, the lookup maps
   nor any logical state, and a frame or key-down during which an armed capture
   does not fire leaves the logical state it would leave with no capture armed. *)
C26_CaptureDoesNotFreeze ==
    [][/\ lastOp' \in {"onNextKeyboardInput", "onNextGamepad", "cancelOnNextKeyboardInput",
                       "cancelOnNextGamepadInput"}
              => UNCHANGED <<inputs, keyMapper, gamepadMapper, logicalVars>>
       /\ (/\ lastOp' = "update"
           /\ Pending # {}
           /\ gamepadInputCallback' = gamepadInputCallback)
              => /\ currentState' = PolledUnarmed.cs
                 /\ previousState' = PolledUnarmed.cs.val
                 /\ latestButton'.names = Frame(PolledUnarmed).latest
                 /\ pressedTime' = Frame(PolledUnarmed).time
       /\ (/\ lastOp' = "keydown"
           /\ IsFunction(gamepadInputCallback.cb)
           /\ ~IsFunction(keyboardInputCallback))
              => \E code \in keysDown' :
                    currentState' = SetStates(currentState, ButtonNames(code), TRUE)]_vars

(* a function is pressed and triggered on a frame with a capture still armed *)
C26_Witness ==
    /\ lastOp = "update"
    /\ IsFunction(gamepadInputCallback.cb)
    /\ captureLog.calls = <<>>
    /\ ~queryThrows
    /\ isPressed("confirm")
    /\ isTriggered("confirm")

(* C27: the hold count of a function runs from its own press edge: on the frame
   after the one that saw confirm's press edge, with its key held throughout,
   confirm is not on a repeat pulse, whatever other keys were pressed or
   released in between. *)
C27_PerFunctionHoldCount ==
    [][(/\ lastOp' = "update"
        /\ "confirm" \in frameLog.edges
        /\ inputs["confirm"].keyboardButton \in keysDown \ freshKeys
        /\ inputs' = inputs)
          => ~(isRepeated("confirm"))']_vars

(* confirm's button has been held on the active gamepad since the last poll *)
ConfirmButtonHeld ==
    /\ activeGamepadIndex \in DOMAIN gamepadStates
    /\ gamepads[activeGamepadIndex].connected
    /\ inputs["confirm"].gamepadButton \in gamepadStates[activeGamepadIndex]
    /\ inputs["confirm"].gamepadButton \in NewState(gamepads[activeGamepadIndex])

(* C28: a function whose button on the active gamepad stays held is reported
   held after every update, whether or not its key has been released meanwhile. *)
C28_MergedHold ==
    [][(lastOp' = "update" /\ ConfirmButtonHeld /\ inputs' = inputs)
          => (isPressed("confirm"))']_vars

(* the buttons of the active gamepad that differ from the state stored for it *)
ChangedButtons ==
    {i \in PadButtons :
        (i \in NewState(gamepads[activeGamepadIndex])) # (i \in gamepadStates[activeGamepadIndex])}

(* the transition of the lowest changed button of the active gamepad *)
LowestTransition ==
    [button |-> Min(ChangedButtons),
     type |-> IF Min(ChangedButtons) \in NewState(gamepads[activeGamepadIndex])
              THEN "press" ELSE "release"]

(* C29: in each frame the transitions handed to nextGamepadInputHandler are at
   most one, the one of the lowest changed button of the active gamepad, and
   the new state of the active gamepad is stored. *)
C29_FirstTransitionWins ==
    [][(/\ lastOp' = "update"
        /\ activeGamepadIndex \in DOMAIN gamepadStates
        /\ gamepads[activeGamepadIndex].connected)
          => /\ Polled.seen = IF ChangedButtons = {} THEN <<>> ELSE <<LowestTransition>>
             /\ activeGamepadIndex \in DOMAIN gamepadStates'
             /\ gamepadStates'[activeGamepadIndex] = NewState(gamepads[activeGamepadIndex])]_vars

(* C30: a key-down taken by an armed keyboard capture leaves every function
   that was not held before the event not held after it. *)
C30_CaptureDivertsKey ==
    [][(lastOp' = "keydown" /\ IsFunction(keyboardInputCallback))
          => \A name \in {"confirm", "ok", "cancel", "menu", "escape"} :
                (isPressed(name))' => isPressed(name)]_vars

(* the configuration last saved is the one makeData writes now *)
ConfigPersisted ==
    /\ savedConfig.saved
    /\ savedConfig.data = JsonConfig(makeData(inputs, activeButtonSet, targetGamepadName))

(* C31: every step that changes a binding, the button set or the preferred
   gamepad leaves the saved configuration equal to the current one. *)
C31_PersistenceFollows ==
    [][(\/ inputs' # inputs
        \/ activeButtonSet' # activeButtonSet
        \/ targetGamepadName' # targetGamepadName)
          => ConfigPersisted']_vars

(* direction d of pad, by the d-pad button or by the left stick beyond 0.5 *)
DirectionPressed(pad, d) ==
    \/ d \in pad.buttons
    \/ d = 12 /\ pad.axes.y < -5
    \/ d = 13 /\ pad.axes.y > 5
    \/ d = 14 /\ pad.axes.x < -5
    \/ d = 15 /\ pad.axes.x > 5

(* C32: after a poll of the active gamepad each of the button states 12..15 is
   pressed iff its d-pad button is pressed or the stick is beyond 0.5 in its
   direction, and the function bound to it is held exactly then. *)
C32_StickAsDpad ==
    (/\ lastOp = "update"
     /\ activeGamepadIndex \in DOMAIN gamepadStates
     /\ gamepads[activeGamepadIndex].connected)
        => \A d \in {12, 13, 14, 15} :
              /\ (d \in gamepadStates[activeGamepadIndex])
                    = DirectionPressed(gamepads[activeGamepadIndex], d)
              /\ \A name \in Range(gamepadMapper[d]) :
                    isPressed(name) = DirectionPressed(gamepads[activeGamepadIndex], d)

(* a poll with the stick up and at the threshold to the right while d-pad down
   and right are pressed: up, down and right are held, left is not *)
C32_Witness ==
    /\ lastOp = "update"
    /\ activeGamepadIndex = 0
    /\ gamepads[0].buttons = {13, 15}
    /\ gamepads[0].axes = [x |-> 5, y |-> -6]
    /\ 0 \in DOMAIN gamepadStates
    /\ gamepadStates[0] = {12, 13, 15}
    /\ isPressed("up") /\ isPressed("down") /\ isPressed("right")

(* the functions bound to one of the gamepad buttons 0..15 *)
BoundToPadButton == {f \in DOMAIN inputs : inputs[f].gamepadButton \in 0 .. 15}

(* the icon \JPCTRL[f] draws *)
GamepadIconShown(f) == obtainEscapeCodeIconIndex("JPCTRL", f)

(* the icons of the current table: the formula, the glyph set, distinct buttons *)
GamepadIconsBySet ==
    /\ {gamepadIndexToIconIndex[b] : b \in 0 .. 15} = 0 .. 15
    /\ \A f \in BoundToPadButton :
          /\ GamepadIconShown(f)
                = Icon(baseControlIconIndex + 16 * activeButtonSet
                         + gamepadIndexToIconIndex[inputs[f].gamepadButton])
          /\ GamepadIconShown(f).value.index >= baseControlIconIndex + 16 * activeButtonSet
          /\ GamepadIconShown(f).value.index < baseControlIconIndex + 16 * (activeButtonSet + 1)
    /\ \A f, g \in BoundToPadButton :
          inputs[f].gamepadButton # inputs[g].gamepadButton
              => GamepadIconShown(f) # GamepadIconShown(g)
    /\ (lastOp = "JPCTRL" /\ returned.arg \in BoundToPadButton)
          => /\ ~returned.threw
             /\ returned.value = GamepadIconShown(returned.arg).value

(* C33: a function bound to gamepad button b shows icon
   baseControlIconIndex + 16 * activeButtonSet + gamepadIndexToIconIndex[b], inside
   the glyph set of the active button set and distinct for distinct buttons; a
   change of button set moves each gamepad icon by 16 per set and no keyboard icon. *)
C33_GamepadIconBySet ==
    [][/\ GamepadIconsBySet'
       /\ (lastOp' = "nextButtonSet")
             => \A f \in DOMAIN inputs :
                   /\ (obtainEscapeCodeIconIndex("KBCTRL", f))'
                         = obtainEscapeCodeIconIndex("KBCTRL", f)
                   /\ f \in BoundToPadButton
                         => (GamepadIconShown(f).value.index)' - GamepadIconShown(f).value.index
                               = 16 * (activeButtonSet' - activeButtonSet)]_vars

(* \JPCTRL[menu] drawn with menu on button 5 and the third button set active *)
C33_Witness ==
    /\ lastOp = "JPCTRL"
    /\ returned.arg = "menu"
    /\ inputs["menu"].gamepadButton = 5
    /\ activeButtonSet = 2
    /\ returned.value = [isNaN |-> FALSE, index |-> 45]

(* C34: an update that polls the preferred gamepad with a button pressed since
   the last poll leaves that gamepad the active one and the function of the
   button held. *)
C34_PreferredTakesEffect ==
    [][lastOp' = "update"
          => \A q \in PreferredPads :
                \A b \in gamepads[q].buttons \ lastPolled[q] :
                    /\ activeGamepadIndex' = q
                    /\ \A name \in Range(gamepadMapper[b]) : (isPressed(name))']_vars

(* the first function other than control whose slot holds v, if any *)
FirstHolder(control, slot, v) ==
    LET holders == {n \in 1 .. Len(inputKeys) :
                      inputKeys[n] # control /\ inputs[inputKeys[n]][slot] = v}
    IN  IF holders = {} THEN {} ELSE {inputKeys[Min(holders)]}

(* what a rebind of slot of control to v may change *)
RebindFrame(control, slot, v) ==
    /\ inputKeys' = inputKeys
    /\ DOMAIN inputs' = DOMAIN inputs
    /\ inputs'[control][slot] = v
    /\ \A f \in FirstHolder(control, slot, v) : inputs'[f][slot] = inputs[control][slot]
    /\ \A f \in DOMAIN inputs \ ({control} \cup FirstHolder(control, slot, v)) :
          inputs'[f] = inputs[f]
    /\ \A f \in {control} \cup FirstHolder(control, slot, v) :
          [inputs'[f] EXCEPT ![slot] = inputs[f][slot]] = inputs[f]
    /\ UNCHANGED <<activeButtonSet, targetGamepadName, keyboardInputCallback,
                   gamepadInputCallback>>

(* C35: a rebind of a known function changes its binding in one slot and that
   of the first other function that held the value, which receives the old
   one; the other slot, the stored defaults, the other functions, the button
   set, the preferred gamepad and the pending captures stay as they were. *)
C35_RebindFrame ==
    [][(lastOp' = "setControlButton" /\ returned'.arg \in DOMAIN inputs)
          => \E slot \in {"keyboardButton", "gamepadButton"} :
                RebindFrame(returned'.arg, slot, inputs'[returned'.arg][slot])]_vars

(* cancel rebound to the key of confirm, which took the key of cancel, with a
   button rebound as well, both captures pending, the second button set and a
   preferred gamepad *)
C35_Witness ==
    /\ lastOp = "setControlButton"
    /\ returned.arg = "cancel"
    /\ inputs["cancel"].keyboardButton = "KeyZ"
    /\ inputs["confirm"].keyboardButton = "KeyX"
    /\ inputs["cancel"].gamepadButton = 0
    /\ IsFunction(keyboardInputCallback)
    /\ IsFunction(gamepadInputCallback.cb)
    /\ activeButtonSet = 1
    /\ targetGamepadName = "padB"

(* no two functions hold the same key, no two the same button *)
DistinctBindings ==
    \A a, b \in DOMAIN inputs :
        a # b => /\ inputs[a].keyboardButton # inputs[b].keyboardButton
                 /\ inputs[a].gamepadButton # inputs[b].gamepadButton

(* the slot a rebind step wrote *)
SlotWritten == IF lastOp' = "setKeyboardButton" THEN "keyboardButton" ELSE "gamepadButton"

(* C36: from a table with distinct bindings, a rebind followed by the rebind of
   the same function to the value it had before gives back the table the
   first rebind started from. *)
C36_RebindUndoable ==
    [][(lastOp' \in {"setKeyboardButton", "setGamepadButton"} /\ DistinctBindings)
          => \A f \in DOMAIN inputs :
                inputs'[f][SlotWritten] # inputs[f][SlotWritten]
                    => setControlButton(inputKeys', inputs', f, inputs[f][SlotWritten],
                                        SlotWritten) = inputs]_vars

(* the startup table again after a rebind, the saved file showing cancel on
   the key of confirm and confirm on the key of cancel *)
C36_Witness ==
    /\ lastOp = "setKeyboardButton"
    /\ inputs = StartupTable
    /\ savedConfig.saved
    /\ savedConfig.data.controlMap["cancel"].keyboardButton = "KeyZ"
    /\ savedConfig.data.controlMap["confirm"].keyboardButton = "KeyX"

(* C37: the active button set is one of 0 .. numButtonSets - 1. *)
C37_ButtonSetInRange ==
    /\ activeButtonSet # NotANumber
    /\ activeButtonSet >= 0
    /\ activeButtonSet < numButtonSets

(* the poll of this step invokes the press closure of startRemap *)
PressClosureInvoked ==
    /\ lastOp' = "update"
    /\ gamepadInputCallback.cb.kind = "remapPress"
    /\ \E n \in 1 .. Len(Polled.fired) : Polled.fired[n].kind = "remapPress"

(* the keydown of this step invokes the handler that arms the next keyboard capture *)
RearmingHandlerInvoked ==
    /\ lastOp' = "keydown"
    /\ keyboardInputCallback.kind = "rearmKeyboard"

(* C38: a capture armed by a handler while it runs is pending once the input
   that invoked the handler has been processed, on the gamepad track and on
   the keyboard track. *)
C38_RearmInsideHandler ==
    [][/\ PressClosureInvoked
             => IsFunction(gamepadInputCallback'.cb) /\ gamepadInputCallback'.type = "release"
       /\ RearmingHandlerInvoked => IsFunction(keyboardInputCallback')]_vars

(* the buttons of gamepad q that differ from what it showed at the last poll *)
ChangedSincePoll(q) ==
    {i \in PadButtons : (i \in NewState(gamepads[q])) # (i \in lastPolled[q])}

(* C39: an update that polls the active gamepad with a button pressed since the
   last poll, no lower button having changed, leaves the gamepad the last
   input device and has invoked a pending press capture. *)
C39_NoTransitionLost ==
    [][lastOp' = "update"
          => \A q \in ConnectedPads :
                (/\ q = activeGamepadIndex'
                 /\ ChangedSincePoll(q) # {}
                 /\ Min(ChangedSincePoll(q)) \in NewState(gamepads[q]))
                    => /\ lastInputDevice' = "gamepad"
                       /\ (IsFunction(gamepadInputCallback.cb) /\ gamepadInputCallback.type = "press")
                             => gamepadInputCallback' = NoGamepadCallback]_vars

(* the failsafe has just invoked resetMap: only it sets the latch SQInput._resetMap *)
FailsafeReset == ~resetMapFlag /\ resetMapFlag'

(* C40: the failsafe invokes resetMap only on a frame that ends at least
   veryLongPressTime consecutive frames with the Escape and the Tab key both
   physically held, and at most once during one such hold. *)
C40_NoAccidentalReset ==
    [][/\ FailsafeReset => /\ {"Escape", "Tab"} \subseteq keysDown
                           /\ holdFrames' >= veryLongPressTime
       /\ resetsInHold' <= 1]_vars

====
